---- MODULE Spec2Model ----
(***************************************************************************)
(* clamdproxy: a filtering proxy between a clamd client and a clamd        *)
(* backend.  One session (ClamdProxy) is modelled: the client-to-backend   *)
(* direction (handleClientToBackend, readCommand, handleInstream), the     *)
(* backend-to-client direction (Start) and the caller that reclaims the    *)
(* two connections (handleConnection).                                     *)
(*                                                                         *)
(* Byte strings are kept run-length encoded: a string is a sequence of     *)
(* runs <<b, n>> (byte b repeated n >= 1 times) in which adjacent runs     *)
(* carry different bytes, so that two strings are equal exactly when       *)
(* their encodings are equal and a 32769-byte chunk payload is one run.    *)
(* Bytes are integers 0..255; only ASCII bytes (< 128) are drawn.          *)
(***************************************************************************)
EXTENDS Integers, Sequences, FiniteSets, TLC

(***************************************************************************)
(* Byte strings                                                            *)
(***************************************************************************)
Run(b, n) == IF n = 0 THEN <<>> ELSE << <<b, n>> >>

Cat(s, t) ==
  IF s = <<>> THEN t
  ELSE IF t = <<>> THEN s
  ELSE IF s[Len(s)][1] = t[1][1]
       THEN SubSeq(s, 1, Len(s) - 1)
              \o << <<t[1][1], s[Len(s)][2] + t[1][2]>> >>
              \o Tail(t)
       ELSE s \o t

RECURSIVE Size(_)
Size(s) == IF s = <<>> THEN 0 ELSE s[1][2] + Size(Tail(s))

RECURSIVE Take(_, _)
Take(s, k) ==
  IF k <= 0 \/ s = <<>> THEN <<>>
  ELSE IF s[1][2] <= k THEN <<s[1]>> \o Take(Tail(s), k - s[1][2])
  ELSE << <<s[1][1], k>> >>

RECURSIVE Drop(_, _)
Drop(s, k) ==
  IF k <= 0 \/ s = <<>> THEN s
  ELSE IF s[1][2] <= k THEN Drop(Tail(s), k - s[1][2])
  ELSE << <<s[1][1], s[1][2] - k>> >> \o Tail(s)

\* the i-th byte of s, 1 <= i <= Size(s)
RECURSIVE ByteAt(_, _)
ByteAt(s, i) ==
  IF i <= s[1][2] THEN s[1][1] ELSE ByteAt(Tail(s), i - s[1][2])

\* the printable ASCII characters, 32 (space) .. 126 (tilde), in order
\* (the grave accent, 96, is spelled out: it cannot be written in a string)
Printable ==
  << " ", "!", "\"", "#", "$", "%", "&", "'", "(", ")", "*", "+", ",", "-",
     ".", "/", "0", "1", "2", "3", "4", "5", "6", "7", "8", "9", ":", ";",
     "<", "=", ">", "?", "@", "A", "B", "C", "D", "E", "F", "G", "H", "I",
     "J", "K", "L", "M", "N", "O", "P", "Q", "R", "S", "T", "U", "V", "W",
     "X", "Y", "Z", "[", "\\", "]", "^", "_", "grave", "a", "b", "c", "d", "e",
     "f", "g", "h", "i", "j", "k", "l", "m", "n", "o", "p", "q", "r", "s",
     "t", "u", "v", "w", "x", "y", "z", "{", "|", "}", "~" >>

Ord(c) == 31 + (CHOOSE i \in 1..Len(Printable) : Printable[i] = c)

\* the byte string of a Go string literal given as its characters
RECURSIVE Str(_)
Str(cs) == IF cs = <<>> THEN <<>> ELSE Cat(Run(Ord(Head(cs)), 1), Str(Tail(cs)))

\* strings.HasPrefix / strings.HasSuffix
HasPrefix(s, p) == Size(s) >= Size(p) /\ Take(s, Size(p)) = p
HasSuffix(s, p) == Size(s) >= Size(p) /\ Drop(s, Size(s) - Size(p)) = p

(***************************************************************************)
(* Protocol constants and the allow-list                                   *)
(***************************************************************************)
nullDelimiter == 0
newlineDelimiter == 10

sPING == Str(<<"P", "I", "N", "G">>)
sVERSION == Str(<<"V", "E", "R", "S", "I", "O", "N">>)
sCOMMANDS == Str(<<"C", "O", "M", "M", "A", "N", "D", "S">>)
sVERSIONCOMMANDS == Cat(sVERSION, sCOMMANDS)
sINSTREAM == Str(<<"I", "N", "S", "T", "R", "E", "A", "M">>)
sz == Str(<<"z">>)
sn == Str(<<"n">>)

\* allowedCommands[k]: a missing key of a Go map reads as false
allowedCommandsBroad == {sPING, sINSTREAM, sVERSION, sVERSIONCOMMANDS, Str(<<"R", "E", "L", "O", "A", "D">>)}
allowedCommands == {sPING, sINSTREAM, sVERSION, sVERSIONCOMMANDS}

(***************************************************************************)
(* Command classifier                                                      *)
(***************************************************************************)
\* unicode.IsSpace on ASCII: HT, LF, VT, FF, CR and space
asciiSpace == {9, 10, 11, 12, 13, 32}

\* strings.Fields(cmd): the maximal runs of non-space bytes, in order
RECURSIVE FieldsFrom(_, _)
FieldsFrom(s, cur) ==
  IF s = <<>> THEN (IF cur = <<>> THEN <<>> ELSE <<cur>>)
  ELSE IF s[1][1] \in asciiSpace
       THEN (IF cur = <<>> THEN <<>> ELSE <<cur>>) \o FieldsFrom(Tail(s), <<>>)
       ELSE FieldsFrom(Tail(s), Cat(cur, <<s[1]>>))

Fields(s) == FieldsFrom(s, <<>>)

isCommandAllowedWholeString(cmd) ==
  LET actualCmd == IF HasPrefix(cmd, sz) \/ HasPrefix(cmd, sn) THEN Drop(cmd, 1) ELSE cmd
  IN  actualCmd \in allowedCommands

isCommandAllowedNoStrip(cmd) ==
  LET cmdParts == Fields(cmd)
  IN  IF Len(cmdParts) = 0 THEN FALSE ELSE cmdParts[1] \in allowedCommands

isCommandAllowed(cmd) ==
  LET cmdParts == Fields(cmd)
  IN  IF Len(cmdParts) = 0 THEN FALSE
      ELSE LET actualCmd == IF HasPrefix(cmdParts[1], sz) \/ HasPrefix(cmdParts[1], sn)
                            THEN Drop(cmdParts[1], 1)
                            ELSE cmdParts[1]
           IN  actualCmd \in allowedCommands

isInstreamCommandAnySpelling(cmd) == HasSuffix(cmd, sINSTREAM)

isInstreamCommand(cmd) ==
  \/ (HasPrefix(cmd, sz) /\ HasSuffix(cmd, sINSTREAM))
  \/ (HasPrefix(cmd, sn) /\ HasSuffix(cmd, sINSTREAM))

(***************************************************************************)
(* Delimited command reader                                                *)
(***************************************************************************)
IsDelim(b) == b = nullDelimiter \/ b = newlineDelimiter

\* index of the first run of s that holds a delimiter byte, 0 if none
RECURSIVE DelimRun(_, _)
DelimRun(s, i) ==
  IF i > Len(s) THEN 0
  ELSE IF IsDelim(s[i][1]) THEN i
  ELSE DelimRun(s, i + 1)

HasDelim(s) == DelimRun(s, 1) # 0

\* readCommand on a reader that holds the bytes `in` and then reports
\* end of stream (or another read error): cmd, delim, err and the bytes left
\* in the reader.  Every byte before the delimiter is appended to cmdBytes;
\* on a read error the bytes read so far are dropped with the buffer.
readCommandKeepPartial(in) ==
  LET k == DelimRun(in, 1)
  IN  IF k = 0
      THEN [cmd |-> in, delim |-> 0, err |-> FALSE, rest |-> <<>>]
      ELSE [cmd |-> SubSeq(in, 1, k - 1), delim |-> in[k][1], err |-> FALSE,
            rest |-> Drop(SubSeq(in, k, Len(in)), 1)]

readCommand(in) ==
  LET k == DelimRun(in, 1)
  IN  IF k = 0
      THEN [cmd |-> <<>>, delim |-> 0, err |-> TRUE, rest |-> <<>>]
      ELSE [cmd |-> SubSeq(in, 1, k - 1), delim |-> in[k][1], err |-> FALSE,
            rest |-> Drop(SubSeq(in, k, Len(in)), 1)]

(***************************************************************************)
(* bufio.Writer over a connection                                          *)
(*   w    = [data |-> buffered bytes (b.buf[0:b.n]), err |-> b.err # nil]  *)
(*   out  = the bytes the connection has accepted so far                   *)
(*   ok   = whether a Write on the connection succeeds now                 *)
(* Each operator returns [w, out, e]: the writer, the connection's bytes   *)
(* and whether the call returned an error.  A failing connection Write     *)
(* accepts no byte.                                                        *)
(***************************************************************************)
writerSize == 64 * 1024

NewWriter == [data |-> <<>>, err |-> FALSE]

\* copy(mem[off:], p) for off + len(p) <= len(mem)
Overwrite(mem, off, p) == Cat(Cat(Take(mem, off), p), Drop(mem, off + Size(p)))

BufFlushLazy(w, out, ok) == [w |-> w, out |-> out, e |-> FALSE]

\* (*bufio.Writer).Flush
BufFlush(w, out, ok) ==
  IF w.err THEN [w |-> w, out |-> out, e |-> TRUE]
  ELSE IF w.data = <<>> THEN [w |-> w, out |-> out, e |-> FALSE]
  ELSE IF ok THEN [w |-> [data |-> <<>>, err |-> FALSE],
                   out |-> Cat(out, w.data), e |-> FALSE]
  ELSE [w |-> [data |-> w.data, err |-> TRUE], out |-> out, e |-> TRUE]

\* (*bufio.Writer).Write and WriteString
RECURSIVE BufWrite(_, _, _, _)
BufWrite(w, out, ok, p) ==
  LET avail == writerSize - Size(w.data)
  IN  IF Size(p) > avail /\ ~w.err
      THEN IF w.data = <<>>
           THEN \* large write, empty buffer: write directly to the connection
                IF ok THEN [w |-> w, out |-> Cat(out, p), e |-> FALSE]
                ELSE [w |-> [data |-> <<>>, err |-> TRUE], out |-> out, e |-> TRUE]
           ELSE LET f == BufFlush([data |-> Cat(w.data, Take(p, avail)), err |-> FALSE],
                                  out, ok)
                IN  BufWrite(f.w, f.out, ok, Drop(p, avail))
      ELSE IF w.err THEN [w |-> w, out |-> out, e |-> TRUE]
      ELSE [w |-> [data |-> Cat(w.data, p), err |-> FALSE], out |-> out, e |-> FALSE]

\* the backing array b.buf after Write(p), mem being the array before: the
\* bytes Write copies stay in the array when a Flush sets b.n back to 0
RECURSIVE BufMem(_, _, _, _)
BufMem(mem, w, ok, p) ==
  LET avail == writerSize - Size(w.data)
  IN  IF Size(p) > avail /\ ~w.err
      THEN IF w.data = <<>> THEN mem
           ELSE LET f == BufFlush([data |-> Cat(w.data, Take(p, avail)), err |-> FALSE],
                                  <<>>, ok)
                IN  BufMem(Overwrite(mem, Size(w.data), Take(p, avail)), f.w, ok,
                           Drop(p, avail))
      ELSE IF w.err THEN mem
      ELSE Overwrite(mem, Size(w.data), p)

\* (*bufio.Writer).ReadFrom as io.CopyN drives it, on the bytes p the limited
\* reader yields: fill the buffer, flush it when full, and once the buffer is
\* empty hand the rest to the connection's own ReadFrom
BufReadFrom(w, out, ok, p) ==
  LET avail == writerSize - Size(w.data)
  IN  IF w.err THEN [w |-> w, out |-> out, e |-> TRUE]
      ELSE IF w.data # <<>> /\ Size(p) < avail
      THEN [w |-> [data |-> Cat(w.data, p), err |-> FALSE], out |-> out, e |-> FALSE]
      ELSE LET f == BufFlush([data |-> Cat(w.data, Take(p, avail)), err |-> FALSE],
                             out, ok)
               r == Drop(p, avail)
           IN  IF w.data = <<>>
               THEN IF ok \/ p = <<>>
                    THEN [w |-> w, out |-> Cat(out, p), e |-> FALSE]
                    ELSE [w |-> [data |-> <<>>, err |-> TRUE], out |-> out, e |-> TRUE]
               ELSE IF f.e THEN f
               ELSE [w |-> f.w, out |-> Cat(f.out, r), e |-> FALSE]

(***************************************************************************)
(* Chunk relay helpers                                                     *)
(***************************************************************************)
chunkBufSize == 32 * 1024

\* size := int(sizeBytes[0])<<24 | int(sizeBytes[1])<<16 | int(sizeBytes[2])<<8 | int(sizeBytes[3])
chunkSize(sizeBytes) ==
  ByteAt(sizeBytes, 1) * 16777216 + ByteAt(sizeBytes, 2) * 65536
    + ByteAt(sizeBytes, 3) * 256 + ByteAt(sizeBytes, 4)

\* The widths of int the released builds have: .goreleaser.yaml names the
\* operating systems only, so the builds are those of GoReleaser's default
\* architectures, 386 (32-bit int) among them.
IntBits == {32, 64}

\* The same expression in an int of the given width, as two halves: the
\* value is h * 65536 + l with l in 0..65535.  With 64 bits the four bytes
\* give the unsigned value; with 32 bits int(sizeBytes[0])<<24 wraps and a
\* first byte of 128 or more gives a negative int.  For a first byte below
\* 128 both widths give chunkSize(sizeBytes).
chunkSizeInt(sizeBytes, bits) ==
  LET hi == ByteAt(sizeBytes, 1) * 256 + ByteAt(sizeBytes, 2)
      lo == ByteAt(sizeBytes, 3) * 256 + ByteAt(sizeBytes, 4)
  IN  [h |-> IF bits = 32 /\ hi >= 32768 THEN hi - 65536 ELSE hi, l |-> lo]

\* lines 321-354: what handleInstream does with a chunk of this size:
\*   "end"     size == 0
\*   "pooled"  size <= 32*1024 and chunk[:size] is a slice of the buffer
\*   "panic"   size <= 32*1024 and chunk[:size] is out of range (size < 0)
\*   "stream"  io.CopyN
relayPath(n) ==
  IF n.h = 0 /\ n.l = 0 THEN "end"
  ELSE IF n.h < 0 THEN "panic"
  ELSE IF n.h = 0 /\ n.l <= chunkBufSize THEN "pooled"
  ELSE "stream"

(***************************************************************************)
(* Inputs of one session                                                   *)
(***************************************************************************)
MaxSends == 3
MaxReplies == 1
MaxBareSends == 2
MaxShortSends == 2
MaxShortReplies == 2

LF == Run(newlineDelimiter, 1)
NUL == Run(nullDelimiter, 1)

sRELOAD == Str(<<"R", "E", "L", "O", "A", "D">>)
sPONG == Str(<<"P", "O", "N", "G">>)

\* a chunk: the 4-byte big-endian length n (n < 2^16) and n bytes b
Chunk(n, b) == Cat(Cat(Run(0, 2), Cat(Run(n \div 256, 1), Run(n % 256, 1))), Run(b, n))

sSCAN == Str(<<"S", "C", "A", "N">>)
sArg == Str(<<" ", "/", "e", "t", "c">>)
SP == Str(<<" ">>)

\* pieces of a chunk stream
StreamPieces ==
  { \* two chunks: of the pooled size, and one byte above the pooled size
    Cat(Chunk(chunkBufSize, Ord("R")), Chunk(chunkBufSize + 1, Ord("B"))),
    \* a chunk of 8 bytes that read like a command that is not allowed, with
    \* both delimiters
    Cat(Cat(Run(0, 3), Run(8, 1)), Cat(Cat(sRELOAD, LF), NUL)),
    \* the terminator and, in the same segment, the next command
    Cat(Run(0, 4), Cat(sPING, LF)) }

ClientPieces ==
  { Cat(sPING, LF),                      \* allowed, plain
    Cat(sRELOAD, LF),                    \* not allowed
    Cat(Cat(sz, sINSTREAM), NUL),        \* allowed, streaming
    Take(sPING, 3),                      \* a command without its delimiter
    Cat(Cat(sSCAN, sArg), LF),           \* not allowed, with an argument
    \* an allowed name with the argument INSTREAM
    Cat(Cat(Cat(sz, sPING), Cat(SP, sINSTREAM)), LF) }
  \cup StreamPieces

\* short commands: an allowed one and a rejected one
ShortPieces == {Cat(Cat(sz, sPING), NUL), Cat(sRELOAD, LF)}

\* INSTREAM without prefix and, behind it, a chunk: the length 5 and the
\* payload PING, LF
bareInstreamPiece ==
  Cat(Cat(sINSTREAM, LF), Cat(Cat(Run(0, 3), Run(5, 1)), Cat(sPING, LF)))

\* the pieces of a client that spells the streaming command without prefix
\* and does not pair prefix and delimiter: 'z' with LF, 'n' with NUL
BarePieces ==
  { bareInstreamPiece, Cat(Cat(sz, sINSTREAM), LF), Cat(Cat(sn, sVERSION), NUL) }

shortReply == Cat(sPONG, LF)

\* a short reply, one of exactly the size of Start's flush watermark, and one
\* that is a byte longer
BackendPieces ==
  { shortReply, Run(Ord("W"), 32 * 1024), Run(Ord("V"), 32 * 1024 + 1) }

(***************************************************************************)
(* State of one session                                                    *)
(***************************************************************************)
VARIABLES
  clientIn,       \* bytes the client sent that the reader has not consumed
  clientSt,       \* the client's end: "open", "eof" (it closed), "reset"
  sends,          \* number of pieces the client has sent
  backendOut,     \* bytes the backend sent that Start has not read
  backendSt,      \* the backend's end: "open", "eof", "reset"
  replies,        \* number of pieces the backend has sent
  backendSent,    \* every byte the backend has sent (history)
  clientSent,     \* every byte the client has sent (history)
  toBackend,      \* bytes the backend connection has accepted
  toClient,       \* bytes the client connection has accepted
  backendClosed,  \* p.backend.Close() / backendConn.Close() has been called
  clientClosed,   \* clientConn.Close() has been called
  closedByC2B,    \* handleClientToBackend has called p.backend.Close()
  backendBuf,     \* p.backendBuf
  clientBuf,      \* p.clientBuf
  clientMem,      \* the backing array of p.clientBuf (b.buf), writerSize bytes
  chunkBuf,       \* the buffer of chunkBufPool
  c2b,            \* position of handleClientToBackend
  b2c,            \* position of Start and of its caller handleConnection
  size,           \* handleInstream: size of the chunk being relayed
  chunks,         \* handleInstream: chunks
  hist,           \* the units handleClientToBackend has read, in order:
                  \*   [t |-> "fwd", cmd, delim]  an allowed command
                  \*   [t |-> "rej", cmd, delim]  a rejected command
                  \*   [t |-> "relay", b]  the bytes one handleInstream call read
                  \*   [t |-> "err", b]    the bytes a failed readCommand read
  relayRet,       \* handleInstream: "none", "running", "nil", "err"
  startErr,       \* Start: err, the error its loop ended with
  logged,         \* the line each direction logged when its loop ended
  clientBufErr,   \* p.clientBuf: b.err, the error its Write and Flush keep
  pin,            \* input of the pure functions on strings
  perr,           \* input of isConnectionClosed
  pout,           \* result of the pure function last applied
  cmdBufPool,     \* free buffers of cmdBufPool
  chunkBufPool,   \* free buffers of chunkBufPool
  sess            \* the sessions that share the pools

envVars == <<clientIn, clientSt, sends, backendOut, backendSt, replies, backendSent,
            clientSent>>
connVars == <<toBackend, toClient, backendClosed, clientClosed, closedByC2B>>
c2bVars == <<backendBuf, chunkBuf, c2b, size, chunks, hist, relayRet>>
pureVars == <<pin, perr, pout>>
poolVars == <<cmdBufPool, chunkBufPool, sess>>
logVars == <<startErr, logged, clientBufErr>>
vars == <<envVars, connVars, c2bVars, clientBuf, clientMem, b2c, pureVars, poolVars,
          logVars>>

\* whether a Write on the connection succeeds
backendWritable == ~backendClosed /\ backendSt # "reset"
clientWritable == ~clientClosed /\ clientSt # "reset"

\* whether a Read on the client connection returns an error once the bytes
\* already received are used up
clientEnded == clientSt # "open" \/ clientClosed

\* an error value as isConnectionClosed sees it:
\*   nil  err == nil
\*   net  errors.As(err, &netErr): "none" when it fails, else whether
\*        netErr.Timeout() is true ("timeout") or false ("other")
\*   op   errors.As(err, &opErr) for *net.OpError, which is a net.Error
\*   is   the targets among io.EOF, io.ErrUnexpectedEOF, syscall.EPIPE and
\*        syscall.ECONNRESET for which errors.Is(err, target) is true
NilError == [nil |-> TRUE, net |-> "none", op |-> FALSE, is |-> {}]

\* io.EOF, io.ErrUnexpectedEOF, syscall.EPIPE, syscall.ECONNRESET
closureSignals == {"EOF", "ErrUnexpectedEOF", "EPIPE", "ECONNRESET"}

isConnectionClosedOpFirst(err) ==
  IF err.nil THEN FALSE
  ELSE IF err.op THEN TRUE
  ELSE IF err.net = "timeout" THEN FALSE
  ELSE \/ "EOF" \in err.is \/ "ErrUnexpectedEOF" \in err.is
       \/ "EPIPE" \in err.is \/ "ECONNRESET" \in err.is

isConnectionClosed(err) ==
  IF err.nil THEN FALSE
  ELSE IF err.net = "timeout" THEN FALSE
  ELSE IF err.op THEN TRUE
  ELSE \/ "EOF" \in err.is \/ "ErrUnexpectedEOF" \in err.is
       \/ "EPIPE" \in err.is \/ "ECONNRESET" \in err.is

\* the errors the connections of a session return, as the classifier sees
\* them: a Read that meets the end of the stream (io.EOF); a Read or Write
\* on a connection the peer has reset (*net.OpError over ECONNRESET, over
\* EPIPE for a Write); a Read or Write on a connection this process has
\* closed (*net.OpError over net.ErrClosed); io.ErrShortWrite of bufio
errEOF == [nil |-> FALSE, net |-> "none", op |-> FALSE, is |-> {"EOF"}]
errReset == [nil |-> FALSE, net |-> "other", op |-> TRUE, is |-> {"ECONNRESET"}]
errPipe == [nil |-> FALSE, net |-> "other", op |-> TRUE, is |-> {"EPIPE"}]
errClosed == [nil |-> FALSE, net |-> "other", op |-> TRUE, is |-> {}]
errShortWrite == [nil |-> FALSE, net |-> "none", op |-> FALSE, is |-> {}]

\* the error of a failed Write on the client connection
connWriteError == IF clientClosed THEN errClosed ELSE errPipe

\* b.err after a call on p.clientBuf: the error kept before, else the error
\* fresh of the call when it failed
keptError(fresh) ==
  IF clientBuf.err THEN clientBufErr
  ELSE IF clientBuf'.err THEN fresh
  ELSE clientBufErr

SessionInit ==
  /\ clientIn = <<>> /\ clientSt = "open" /\ sends = 0
  /\ backendOut = <<>> /\ backendSt = "open" /\ replies = 0 /\ backendSent = <<>>
  /\ clientSent = <<>>
  /\ toBackend = <<>> /\ toClient = <<>>
  /\ backendClosed = FALSE /\ clientClosed = FALSE /\ closedByC2B = FALSE
  /\ backendBuf = NewWriter /\ clientBuf = NewWriter
  /\ clientMem = Run(0, writerSize)
  /\ chunkBuf = Run(0, chunkBufSize)
  /\ c2b = "read" /\ b2c = "read"
  /\ size = 0 /\ chunks = 0
  /\ hist = <<>> /\ relayRet = "none"
  /\ startErr = NilError /\ logged = [c2b |-> "none", b2c |-> "none"]
  /\ clientBufErr = NilError

\* no pure function, no pool in use
PureIdle == pin = <<>> /\ perr = NilError /\ pout = [fn |-> "none"]
\* a sync.Pool: the buffers that were Put and not taken again (free), and
\* the memory of every buffer by its identity
MaxPoolBufs == 2
BufIds == 1..MaxPoolBufs

\* make([]byte, 0, 256): the backing array and the slice's length
newCmdBuf == [arr |-> Run(0, 256), len |-> 0]
\* make([]byte, 32*1024)
newChunkBuf == Run(0, chunkBufSize)

PoolIdle ==
  /\ cmdBufPool = [free |-> {}, mem |-> [i \in BufIds |-> newCmdBuf]]
  /\ chunkBufPool = [free |-> {}, mem |-> [i \in BufIds |-> newChunkBuf]]
  /\ sess = <<>>

Init == SessionInit /\ PureIdle /\ PoolIdle

(***************************************************************************)
(* The client and the backend                                              *)
(***************************************************************************)
\* handleClientToBackend waits for bytes of the client
C2BWaiting ==
  \/ c2b = "read" /\ ~HasDelim(clientIn)
  \/ c2b = "relay" /\ Size(clientIn) < 4
  \/ c2b = "relayData" /\ Size(clientIn) < size

\* The client sends its next piece once the reader waits for it: what the
\* reader does with the bytes does not depend on how they were split or on
\* when they arrived, only on their order.  It sends pieces of a chunk
\* stream only while a stream is being relayed.
ClientSend ==
  /\ clientSt = "open" /\ ~clientClosed /\ sends < MaxSends
  /\ C2BWaiting
  /\ \E p \in ClientPieces :
       /\ p \in StreamPieces => c2b \in {"relay", "relayData"}
       /\ clientIn' = Cat(clientIn, p)
       /\ clientSent' = Cat(clientSent, p)
  /\ sends' = sends + 1
  /\ UNCHANGED <<clientSt, backendOut, backendSt, replies, backendSent, connVars,
                 c2bVars, clientBuf, clientMem, b2c, pureVars, poolVars, logVars>>

\* the client that spells the streaming command without prefix and does not
\* pair prefix and delimiter
ClientSendBare ==
  /\ clientSt = "open" /\ ~clientClosed /\ sends < MaxBareSends
  /\ C2BWaiting
  /\ \E p \in BarePieces :
       /\ clientIn' = Cat(clientIn, p)
       /\ clientSent' = Cat(clientSent, p)
  /\ sends' = sends + 1
  /\ UNCHANGED <<clientSt, backendOut, backendSt, replies, backendSent, connVars,
                 c2bVars, clientBuf, clientMem, b2c, pureVars, poolVars, logVars>>

\* the client that sends short commands only, allowed and rejected
ClientSendShort ==
  /\ clientSt = "open" /\ ~clientClosed /\ sends < MaxShortSends
  /\ C2BWaiting
  /\ \E p \in ShortPieces :
       /\ clientIn' = Cat(clientIn, p)
       /\ clientSent' = Cat(clientSent, p)
  /\ sends' = sends + 1
  /\ UNCHANGED <<clientSt, backendOut, backendSt, replies, backendSent, connVars,
                 c2bVars, clientBuf, clientMem, b2c, pureVars, poolVars, logVars>>

ClientClose ==
  /\ clientSt = "open"
  /\ \E st \in {"eof", "reset"} : clientSt' = st
  /\ UNCHANGED <<clientIn, sends, backendOut, backendSt, replies, backendSent,
                 clientSent, connVars, c2bVars, clientBuf, clientMem, b2c, pureVars,
                 poolVars, logVars>>

\* The backend answers requests: it sends nothing before it has received a
\* byte.
BackendSend ==
  /\ backendSt = "open" /\ ~backendClosed /\ replies < MaxReplies
  /\ toBackend # <<>>
  /\ \E p \in BackendPieces :
       /\ backendOut' = Cat(backendOut, p)
       /\ backendSent' = Cat(backendSent, p)
  /\ replies' = replies + 1
  /\ UNCHANGED <<clientIn, clientSt, sends, backendSt, clientSent, connVars,
                 c2bVars, clientBuf, clientMem, b2c, pureVars, poolVars, logVars>>

\* the backend that answers with short replies, more than one
BackendSendShort ==
  /\ backendSt = "open" /\ ~backendClosed /\ replies < MaxShortReplies
  /\ toBackend # <<>>
  /\ backendOut' = Cat(backendOut, shortReply)
  /\ backendSent' = Cat(backendSent, shortReply)
  /\ replies' = replies + 1
  /\ UNCHANGED <<clientIn, clientSt, sends, backendSt, clientSent, connVars,
                 c2bVars, clientBuf, clientMem, b2c, pureVars, poolVars, logVars>>

BackendClose ==
  /\ backendSt = "open"
  /\ \E st \in {"eof", "reset"} : backendSt' = st
  /\ UNCHANGED <<clientIn, clientSt, sends, backendOut, replies, backendSent,
                 clientSent, connVars, c2bVars, clientBuf, clientMem, b2c, pureVars,
                 poolVars, logVars>>

(***************************************************************************)
(* Client to backend: handleClientToBackend                                *)
(***************************************************************************)
rejectResponse ==
  Cat(Str(<<"E", "R", "R", "O", "R", ":", " ", "C", "o", "m", "m", "a", "n", "d", " ",
            "n", "o", "t", " ", "a", "l", "l", "o", "w", "e", "d">>), LF)

SetLast(h, e) == [h EXCEPT ![Len(h)] = e]

\* where the loop goes after the rejection text was written (e: Write failed)
\* and after it was flushed (e: Flush failed)
afterRejectWrite(e) == IF e THEN "done" ELSE "rejFlush"
afterRejectFlushBreak(e) == "done"
afterRejectFlush(e) == IF e THEN "done" ELSE "read"

afterForwardNoRelay(e, cmd) == IF e THEN "done" ELSE "read"
\* where the loop goes after an allowed command was written and flushed
\* (e: Write or Flush failed)
afterForward(e, cmd) ==
  IF e THEN "done" ELSE IF isInstreamCommand(cmd) THEN "relay" ELSE "read"

\* line 145: the error of a failed readCommand
readCommandError ==
  IF clientClosed THEN errClosed
  ELSE IF clientSt = "eof" THEN errEOF
  ELSE errReset

\* lines 146-163: what handleClientToBackend does with the error e of
\* readCommand when isConnectionClosed(e) is closed: the line it logs,
\* whether it calls p.backend.Close(), and where it goes
readErrorExit(e, closed) ==
  [log |-> IF e = errEOF THEN "Info: Client disconnected"
           ELSE IF closed THEN "Info: Client connection closed"
           ELSE "Debug: Error reading command",
   close |-> TRUE,
   c2b |-> "done"]

\* lines 145-163: readCommand fails; the backend connection is closed
C2BReadError ==
  /\ c2b = "read"
  /\ clientEnded /\ (~HasDelim(clientIn) \/ clientClosed)
  /\ clientIn' = <<>>
  /\ hist' = Append(hist, [t |-> "err", b |-> clientIn])
  /\ LET x == readErrorExit(readCommandError, isConnectionClosed(readCommandError))
     IN  /\ logged' = [logged EXCEPT !.c2b = x.log]
         /\ backendClosed' = (backendClosed \/ x.close)
         /\ closedByC2B' = (closedByC2B \/ x.close)
         /\ c2b' = x.c2b
  /\ UNCHANGED <<clientSt, sends, backendOut, backendSt, replies, backendSent,
                 clientSent, toBackend, toClient, clientClosed, backendBuf, chunkBuf,
                 size, chunks, relayRet, clientBuf, clientMem, b2c, pureVars, poolVars,
                 startErr, clientBufErr>>

forwardBytesByPrefix(cmd, delim) ==
  Cat(cmd, IF HasPrefix(cmd, sz) THEN NUL ELSE IF HasPrefix(cmd, sn) THEN LF
           ELSE Run(delim, 1))
\* line 171: append([]byte(cmd), delim)
forwardBytes(cmd, delim) == Cat(cmd, Run(delim, 1))

\* lines 145-191: an allowed command is written to p.backendBuf and flushed
C2BForward ==
  /\ c2b = "read" /\ HasDelim(clientIn)
  /\ LET r == readCommand(clientIn)
         w == BufWrite(backendBuf, toBackend, backendWritable,
                       forwardBytes(r.cmd, r.delim))
         f == IF w.e THEN w ELSE BufFlush(w.w, w.out, backendWritable)
     IN  /\ isCommandAllowed(r.cmd)
         /\ clientIn' = r.rest
         /\ backendBuf' = f.w /\ toBackend' = f.out
         /\ c2b' = afterForward(f.e, r.cmd)
         /\ hist' = IF c2b' = "relay"
                    THEN hist \o <<[t |-> "fwd", cmd |-> r.cmd, delim |-> r.delim],
                                   [t |-> "relay", b |-> <<>>]>>
                    ELSE Append(hist, [t |-> "fwd", cmd |-> r.cmd, delim |-> r.delim])
         /\ relayRet' = IF c2b' = "relay" THEN "running" ELSE relayRet
         /\ chunks' = IF c2b' = "relay" THEN 0 ELSE chunks
  /\ UNCHANGED <<clientSt, sends, backendOut, backendSt, replies, backendSent,
                 clientSent, toClient, backendClosed, clientClosed, closedByC2B,
                 chunkBuf, size, clientBuf, clientMem, b2c, pureVars, poolVars, logVars>>

\* lines 145-199: a command that is not allowed; the rejection text is
\* written to p.clientBuf
C2BReject ==
  /\ c2b = "read" /\ HasDelim(clientIn)
  /\ LET r == readCommand(clientIn)
         w == BufWrite(clientBuf, toClient, clientWritable, rejectResponse)
     IN  /\ ~isCommandAllowed(r.cmd)
         /\ clientIn' = r.rest
         /\ clientBuf' = w.w /\ toClient' = w.out
         /\ clientMem' = BufMem(clientMem, clientBuf, clientWritable, rejectResponse)
         /\ c2b' = afterRejectWrite(w.e)
         /\ hist' = Append(hist, [t |-> "rej", cmd |-> r.cmd, delim |-> r.delim])
  /\ clientBufErr' = keptError(connWriteError)
  /\ UNCHANGED <<clientSt, sends, backendOut, backendSt, replies, backendSent,
                 clientSent, toBackend, backendClosed, clientClosed, closedByC2B,
                 backendBuf, chunkBuf, size, chunks, relayRet, b2c, pureVars, poolVars,
                 startErr, logged>>

\* lines 200-204: the rejection text is flushed
C2BRejectFlush ==
  /\ c2b = "rejFlush"
  /\ LET f == BufFlush(clientBuf, toClient, clientWritable)
     IN  /\ clientBuf' = f.w /\ toClient' = f.out
         /\ c2b' = afterRejectFlush(f.e)
  /\ clientBufErr' = keptError(connWriteError)
  /\ UNCHANGED <<envVars, clientMem, toBackend, backendClosed, clientClosed, closedByC2B,
                 backendBuf, chunkBuf, size, chunks, hist, relayRet, b2c, pureVars, poolVars,
                 startErr, logged>>

(***************************************************************************)
(* Chunk relay: handleInstream                                             *)
(***************************************************************************)
RelayRead(b) == SetLast(hist, [t |-> "relay", b |-> Cat(hist[Len(hist)].b, b)])

\* the part of the loop body after the chunk data was forwarded
\* (lines 356-372): count the chunk, flush every tenth chunk
afterChunk(w, out, ok, n) ==
  IF n % 10 = 0 THEN BufFlush(w, out, ok) ELSE [w |-> w, out |-> out, e |-> FALSE]

afterInstreamContinue(e) == "read"
\* lines 185-190: where handleClientToBackend goes when handleInstream has
\* returned (e: it returned an error)
afterInstream(e) == IF e THEN "done" ELSE "read"

\* lines 308-310: io.ReadFull cannot fill the 4 size bytes
C2BRelaySizeError ==
  /\ c2b = "relay"
  /\ clientEnded /\ (Size(clientIn) < 4 \/ clientClosed)
  /\ clientIn' = Drop(clientIn, 4)
  /\ hist' = RelayRead(Take(clientIn, 4))
  /\ relayRet' = "err" /\ c2b' = afterInstream(TRUE)
  /\ UNCHANGED <<clientSt, sends, backendOut, backendSt, replies, backendSent,
                 clientSent, connVars, backendBuf, chunkBuf, size, chunks,
                 clientBuf, clientMem, b2c, pureVars, poolVars, logVars>>

\* lines 304-308: io.ReadFull(reader, sizeBytes) with 4 bytes available
readSizeBytesFive(in) == Take(in, 5)
readSizeBytes(in) == Take(in, 4)

\* lines 308-327 and 375-380: the size bytes are read and forwarded; a zero
\* size ends the loop and the writer is flushed
C2BRelaySize ==
  /\ c2b = "relay" /\ Size(clientIn) >= 4
  /\ LET sizeBytes == readSizeBytes(clientIn)
         n == chunkSize(sizeBytes)
         w == BufWrite(backendBuf, toBackend, backendWritable, sizeBytes)
         f == IF ~w.e /\ n = 0 THEN BufFlush(w.w, w.out, backendWritable) ELSE w
     IN  /\ clientIn' = Drop(clientIn, Size(sizeBytes))
         /\ hist' = RelayRead(sizeBytes)
         /\ backendBuf' = f.w /\ toBackend' = f.out
         /\ size' = IF f.e THEN 0 ELSE n
         /\ relayRet' = IF f.e THEN "err" ELSE IF n = 0 THEN "nil" ELSE "running"
         /\ c2b' = IF f.e THEN afterInstream(TRUE)
                   ELSE IF n = 0 THEN afterInstream(FALSE) ELSE "relayData"
  /\ UNCHANGED <<clientSt, sends, backendOut, backendSt, replies, backendSent,
                 clientSent, toClient, backendClosed, clientClosed, closedByC2B,
                 chunkBuf, chunks, clientBuf, clientMem, b2c, pureVars, poolVars, logVars>>

\* lines 330-348: a chunk of at most 32 KiB goes through the pooled buffer
pooledChunkFromOffsetOne(buf, data, n) == Take(Overwrite(buf, 1, Drop(data, 1)), n)
pooledChunk(buf, data, n) == Take(Overwrite(buf, 0, data), n)

\* lines 330-372: the chunk data is read and forwarded.  io.ReadFull and
\* io.CopyN return once `size` bytes were read or the reader failed; the
\* step is taken when either has happened.
C2BRelayData ==
  /\ c2b = "relayData"
  /\ Size(clientIn) >= size \/ clientEnded
  /\ \E complete \in {Size(clientIn) >= size, Size(clientIn) >= size /\ ~clientClosed} :
     LET data == Take(clientIn, size)
         w == IF size <= chunkBufSize
              THEN IF complete
                   THEN BufWrite(backendBuf, toBackend, backendWritable,
                                 pooledChunk(chunkBuf, data, size))
                   ELSE [w |-> backendBuf, out |-> toBackend, e |-> TRUE]
              ELSE LET c == BufReadFrom(backendBuf, toBackend, backendWritable, data)
                   IN  [w |-> c.w, out |-> c.out, e |-> c.e \/ ~complete]
         f == IF w.e THEN w ELSE afterChunk(w.w, w.out, backendWritable, chunks + 1)
     IN  /\ clientIn' = Drop(clientIn, size)
         /\ hist' = RelayRead(data)
         /\ chunkBuf' = IF size <= chunkBufSize THEN Overwrite(chunkBuf, 0, data)
                        ELSE chunkBuf
         /\ backendBuf' = f.w /\ toBackend' = f.out
         /\ chunks' = IF w.e THEN chunks ELSE chunks + 1
         /\ size' = 0
         /\ relayRet' = IF f.e THEN "err" ELSE "running"
         /\ c2b' = IF f.e THEN afterInstream(TRUE) ELSE "relay"
  /\ UNCHANGED <<clientSt, sends, backendOut, backendSt, replies, backendSent,
                 clientSent, toClient, backendClosed, clientClosed, closedByC2B,
                 clientBuf, clientMem, b2c, pureVars, poolVars, logVars>>

(***************************************************************************)
(* Backend to client: Start, and handleConnection once Start returns       *)
(***************************************************************************)
copyBufSize == 64 * 1024

flushWatermarkWholeBuffer == 64 * 1024
\* line 108: p.clientBuf.Buffered() > 32*1024
flushWatermark == 32 * 1024

\* Start waits in p.backend.Read: nothing to read, no end of stream, no
\* error, and the connection is not closed
B2CWaiting ==
  b2c = "read" /\ backendOut = <<>> /\ backendSt = "open" /\ ~backendClosed

\* line 85: the error er of a failed p.backend.Read
backendReadError ==
  IF backendClosed THEN errClosed
  ELSE IF backendSt = "eof" THEN errEOF
  ELSE errReset

\* lines 85-105: one Read from the backend and the Write of what it returned
B2CRead ==
  /\ b2c = "read" /\ ~B2CWaiting
  /\ IF backendClosed \/ backendOut = <<>>
     THEN \* er # nil and nr = 0: a closed connection, end of stream or an error
          /\ b2c' = "final"
          /\ startErr' = IF backendReadError = errEOF THEN startErr
                         ELSE backendReadError
          /\ UNCHANGED <<backendOut, clientBuf, clientMem, toClient>>
     ELSE LET nr == IF Size(backendOut) < copyBufSize THEN Size(backendOut)
                    ELSE copyBufSize
              w == BufWrite(clientBuf, toClient, clientWritable, Take(backendOut, nr))
          IN  /\ backendOut' = Drop(backendOut, nr)
              /\ clientBuf' = w.w /\ toClient' = w.out
              /\ clientMem' = BufMem(clientMem, clientBuf, clientWritable,
                                     Take(backendOut, nr))
              /\ b2c' = IF w.e THEN "final" ELSE "check"
              /\ startErr' = IF w.e THEN keptError(connWriteError) ELSE startErr
  /\ clientBufErr' = keptError(connWriteError)
  /\ UNCHANGED <<clientIn, clientSt, sends, backendSt, replies, backendSent,
                 clientSent, toBackend, backendClosed, clientClosed, closedByC2B,
                 c2bVars, pureVars, poolVars, logged>>

\* lines 107-112: the periodic flush; its error is logged and dropped
B2CCheck ==
  /\ b2c = "check"
  /\ LET f == IF Size(clientBuf.data) > flushWatermark
              THEN BufFlush(clientBuf, toClient, clientWritable)
              ELSE [w |-> clientBuf, out |-> toClient, e |-> FALSE]
     IN  clientBuf' = f.w /\ toClient' = f.out
  /\ b2c' = "read"
  /\ clientBufErr' = keptError(connWriteError)
  /\ UNCHANGED <<envVars, clientMem, toBackend, backendClosed, clientClosed, closedByC2B,
                 c2bVars, pureVars, poolVars,
                 startErr, logged>>

startExitRetry(e, closed) ==
  [log |-> IF e.nil THEN "Info: Proxy completed"
           ELSE IF closed THEN "Info: Backend connection closed"
           ELSE "Debug: Error copying from backend to client",
   b2c |-> IF e.nil \/ closed THEN "returned" ELSE "read"]
\* lines 120-135: what Start does with its err after the final flush when
\* isConnectionClosed(err) is closed: the line it logs, and where it goes
startExit(e, closed) ==
  [log |-> IF e.nil THEN "Info: Proxy completed"
           ELSE IF closed THEN "Info: Backend connection closed"
           ELSE "Debug: Error copying from backend to client",
   b2c |-> "returned"]

\* lines 115-135: the final flush; Start returns
B2CFinalFlush ==
  /\ b2c = "final"
  /\ LET f == BufFlush(clientBuf, toClient, clientWritable)
     IN  clientBuf' = f.w /\ toClient' = f.out
  /\ LET x == startExit(startErr, isConnectionClosed(startErr))
     IN  logged' = [logged EXCEPT !.b2c = x.log] /\ b2c' = x.b2c
  /\ clientBufErr' = keptError(connWriteError)
  /\ UNCHANGED <<envVars, clientMem, toBackend, backendClosed, clientClosed, closedByC2B,
                 c2bVars, pureVars, poolVars, startErr>>

\* handleConnection's deferred calls: backendConn.Close(), clientConn.Close()
HandleConnectionReturn ==
  /\ b2c = "returned"
  /\ backendClosed' = TRUE /\ clientClosed' = TRUE
  /\ b2c' = "done"
  /\ UNCHANGED <<envVars, toBackend, toClient, closedByC2B, c2bVars, clientBuf, clientMem,
                 pureVars, poolVars, logVars>>

(***************************************************************************)
(* Both directions on p.clientBuf at once                                  *)
(*                                                                         *)
(* handleClientToBackend writes and flushes the rejection text on the same *)
(* bufio.Writer that Start writes and flushes, in two goroutines and       *)
(* without a lock.  The actions above are the runs in which one call ends  *)
(* before the other begins.  ClientBufRace is a run in which a call of     *)
(* each direction overlaps the other: every call is two steps on the       *)
(* writer's fields (b.buf, b.n, b.err) and the connection,                 *)
(*   Write: copy(b.buf[b.n:], p), then b.n += n                            *)
(*   Flush: b.wr.Write(b.buf[0:b.n]), then b.n = 0, or, when b.n is by     *)
(*          then larger than what was written, the short-write branch      *)
(* and the first steps of both calls precede their second steps, in one of *)
(* four orders.  A step is taken as a whole: copies of single bytes do not *)
(* interleave.                                                             *)
(***************************************************************************)
noOp == [k |-> "none", p |-> <<>>]
flushOp == [k |-> "flush", p |-> <<>>]
writeOp(p) == [k |-> "write", p |-> p]

\* the call of handleClientToBackend on p.clientBuf that is due (lines 196, 200)
c2bOp ==
  IF c2b = "read" /\ HasDelim(clientIn) /\ ~isCommandAllowed(readCommand(clientIn).cmd)
  THEN writeOp(rejectResponse)
  ELSE IF c2b = "rejFlush" THEN flushOp
  ELSE noOp

\* the call of Start on p.clientBuf that is due (lines 87, 109, 116)
b2cOp ==
  IF b2c = "read" /\ ~backendClosed /\ backendOut # <<>>
  THEN writeOp(Take(backendOut, IF Size(backendOut) < copyBufSize
                                THEN Size(backendOut) ELSE copyBufSize))
  ELSE IF b2c = "check" /\ Size(clientBuf.data) > flushWatermark THEN flushOp
  ELSE IF b2c = "final" THEN flushOp
  ELSE noOp

\* first step of a call on the writer s = [mem, n, err, out]; m is what the
\* call keeps for its second step (bytes copied, bytes written, -1: Flush
\* found b.n = 0 and returned)
opFirst(op, s) ==
  IF op.k = "write"
  THEN [s |-> [s EXCEPT !.mem = Overwrite(s.mem, s.n, op.p)], m |-> Size(op.p)]
  ELSE IF s.n = 0 THEN [s |-> s, m |-> -1]
  ELSE [s |-> [s EXCEPT !.out = Cat(s.out, Take(s.mem, s.n))], m |-> s.n]

\* second step of a call; e: the call returns an error
opSecond(op, s, m) ==
  IF op.k = "write" THEN [s |-> [s EXCEPT !.n = s.n + m], e |-> FALSE]
  ELSE IF m = -1 THEN [s |-> s, e |-> FALSE]
  ELSE IF m < s.n
       THEN \* n < b.n: io.ErrShortWrite, the rest is moved to the front
            [s |-> [s EXCEPT !.mem = Overwrite(s.mem, 0, Take(Drop(s.mem, m), s.n - m)),
                             !.n = s.n - m, !.err = TRUE],
             e |-> TRUE]
       ELSE [s |-> [s EXCEPT !.n = 0], e |-> FALSE]

\* the four overlapping orders of the calls a and b:
\*   1: a1 b1 a2 b2   2: a1 b1 b2 a2   3: b1 a1 a2 b2   4: b1 a1 b2 a2
raceOrders == 1..4

raceOutcome(a, b, s, ord) ==
  LET f1 == IF ord \in {1, 2} THEN opFirst(a, s) ELSE opFirst(b, s)
      f2 == IF ord \in {1, 2} THEN opFirst(b, f1.s) ELSE opFirst(a, f1.s)
      ma == IF ord \in {1, 2} THEN f1.m ELSE f2.m
      mb == IF ord \in {1, 2} THEN f2.m ELSE f1.m
      g1 == IF ord \in {1, 3} THEN opSecond(a, f2.s, ma) ELSE opSecond(b, f2.s, mb)
      g2 == IF ord \in {1, 3} THEN opSecond(b, g1.s, mb) ELSE opSecond(a, g1.s, ma)
  IN  [s |-> g2.s,
       ea |-> IF ord \in {1, 3} THEN g1.e ELSE g2.e,
       eb |-> IF ord \in {1, 3} THEN g2.e ELSE g1.e]

ClientBufRace ==
  /\ c2bOp.k # "none" /\ b2cOp.k # "none"
  /\ clientWritable /\ ~clientBuf.err
  /\ Size(clientBuf.data) + Size(c2bOp.p) + Size(b2cOp.p) <= writerSize
  /\ \E ord \in raceOrders :
       LET r == raceOutcome(c2bOp, b2cOp,
                            [mem |-> clientMem, n |-> Size(clientBuf.data),
                             err |-> FALSE, out |-> toClient], ord)
       IN  /\ clientBuf' = [data |-> Take(r.s.mem, r.s.n), err |-> r.s.err]
           /\ clientMem' = r.s.mem
           /\ toClient' = r.s.out
           /\ c2b' = IF c2bOp.k = "write" THEN afterRejectWrite(r.ea)
                     ELSE afterRejectFlush(r.ea)
           /\ b2c' = IF b2cOp.k = "write" THEN (IF r.eb THEN "final" ELSE "check")
                     ELSE IF b2c = "check" THEN "read"
                     ELSE startExit(startErr, isConnectionClosed(startErr)).b2c
  /\ IF c2bOp.k = "write"
     THEN LET r == readCommand(clientIn)
          IN  /\ clientIn' = r.rest
              /\ hist' = Append(hist, [t |-> "rej", cmd |-> r.cmd, delim |-> r.delim])
     ELSE UNCHANGED <<clientIn, hist>>
  /\ IF b2cOp.k = "write"
     THEN backendOut' = Drop(backendOut, Size(b2cOp.p))
     ELSE UNCHANGED backendOut
  /\ logged' = IF b2c = "final"
               THEN [logged EXCEPT
                       !.b2c = startExit(startErr, isConnectionClosed(startErr)).log]
               ELSE logged
  /\ clientBufErr' = keptError(errShortWrite)
  /\ UNCHANGED <<clientSt, sends, backendSt, replies, backendSent, clientSent,
                 toBackend, backendClosed, clientClosed, closedByC2B, backendBuf,
                 chunkBuf, size, chunks, relayRet, pureVars, poolVars, startErr>>

(***************************************************************************)
(* Specification of one session                                            *)
(***************************************************************************)
ProxyNext ==
  \/ C2BReadError \/ C2BForward \/ C2BReject \/ C2BRejectFlush
  \/ C2BRelaySizeError \/ C2BRelaySize \/ C2BRelayData
  \/ B2CRead \/ B2CCheck \/ B2CFinalFlush \/ HandleConnectionReturn
  \/ ClientBufRace

EnvNext == ClientSend \/ ClientClose \/ BackendSend \/ BackendClose

Next == ProxyNext \/ EnvNext

Spec == Init /\ [][Next]_vars

\* the same session with a client that uses the spelling without prefix and
\* does not pair prefix and delimiter
NextBare == ProxyNext \/ ClientSendBare \/ ClientClose \/ BackendSend \/ BackendClose

SpecBare == Init /\ [][NextBare]_vars

\* the same session with short commands and short replies: no chunk stream
\* is relayed, and the backend sends again after a call on p.clientBuf failed
NextShort ==
  \/ C2BReadError \/ C2BForward \/ C2BReject \/ C2BRejectFlush
  \/ B2CRead \/ B2CCheck \/ B2CFinalFlush \/ HandleConnectionReturn
  \/ ClientBufRace
  \/ ClientSendShort \/ ClientClose \/ BackendSendShort \/ BackendClose

SpecShort == Init /\ [][NextShort]_vars

(***************************************************************************)
(* The pure functions on their own: each is applied to an input string     *)
(***************************************************************************)
sSTATS == Str(<<"S", "T", "A", "T", "S">>)
PureWords ==
  {<<>>, sPING, sVERSION, sVERSIONCOMMANDS, sINSTREAM, sRELOAD, sSCAN, sSTATS,
   sCOMMANDS, Take(sPING, 3), Str(<<"p", "i", "n", "g">>)}

\* nothing, a prefix character, two of them, a space, a tab, another letter
PureFront == {<<>>, sz, sn, Cat(sz, sz), Cat(sn, sz), SP, Run(9, 1), Str(<<"x">>),
              Cat(sz, sPING), Cat(sz, Cat(sPING, SP))}

\* nothing, a space, an argument, a delimiter and what may follow it
PureBack == {<<>>, SP, sArg, sINSTREAM, Cat(SP, sINSTREAM), NUL, LF, Cat(LF, sPING),
             Cat(NUL, LF), Cat(sArg, Cat(NUL, sRELOAD))}

PureInputs == {Cat(f, Cat(w, b)) : f \in PureFront, w \in PureWords, b \in PureBack}

\* length prefixes: every byte at its ends and around the sign bit, the
\* pooled size 32768 (00 00 80 00) and 32769 (00 00 80 01) among them
SizeInputs ==
  {Cat(Cat(Run(b1, 1), Run(b2, 1)), Cat(Run(b3, 1), Run(b4, 1))) :
     b1 \in {0, 1, 127, 128, 255}, b2 \in {0, 1, 255},
     b3 \in {0, 127, 128, 255}, b4 \in {0, 1, 255}}

\* the error values: nil, and every non-nil error by what errors.As and
\* errors.Is report of it (a *net.OpError is a net.Error)
PureErrors ==
  {NilError} \cup
  {e \in [nil : {FALSE}, net : {"none", "timeout", "other"}, op : BOOLEAN,
          is : SUBSET closureSignals] : e.op => e.net # "none"}

InitPure ==
  /\ SessionInit /\ PoolIdle
  /\ \/ pin \in PureInputs \cup SizeInputs /\ perr = NilError
     \/ pin = <<>> /\ perr \in PureErrors
  /\ pout = [fn |-> "none"]

ApplyIsCommandAllowed ==
  /\ pout.fn = "none"
  /\ pout' = [fn |-> "isCommandAllowed", ok |-> isCommandAllowed(pin)]
  /\ UNCHANGED <<envVars, connVars, c2bVars, clientBuf, clientMem, b2c, pin, perr,
                 poolVars, logVars>>

ApplyIsInstreamCommand ==
  /\ pout.fn = "none"
  /\ pout' = [fn |-> "isInstreamCommand", ok |-> isInstreamCommand(pin)]
  /\ UNCHANGED <<envVars, connVars, c2bVars, clientBuf, clientMem, b2c, pin, perr,
                 poolVars, logVars>>

ApplyReadCommand ==
  /\ pout.fn = "none"
  /\ pout' = [fn |-> "readCommand", r |-> readCommand(pin)]
  /\ UNCHANGED <<envVars, connVars, c2bVars, clientBuf, clientMem, b2c, pin, perr,
                 poolVars, logVars>>

ApplyIsConnectionClosed ==
  /\ pout.fn = "none"
  /\ pout' = [fn |-> "isConnectionClosed", ok |-> isConnectionClosed(perr)]
  /\ UNCHANGED <<envVars, connVars, c2bVars, clientBuf, clientMem, b2c, pin, perr,
                 poolVars, logVars>>

\* lines 308-354: the four size bytes are decoded and the chunk takes its
\* path, in a build of either width
ApplyChunkSize ==
  /\ pout.fn = "none" /\ Size(pin) >= 4
  /\ \E bits \in IntBits :
       LET n == chunkSizeInt(readSizeBytes(pin), bits)
       IN  pout' = [fn |-> "chunkSize", bits |-> bits, size |-> n,
                    path |-> relayPath(n)]
  /\ UNCHANGED <<envVars, connVars, c2bVars, clientBuf, clientMem, b2c, pin, perr,
                 poolVars, logVars>>

NextPure ==
  \/ ApplyIsCommandAllowed \/ ApplyIsInstreamCommand \/ ApplyReadCommand
  \/ ApplyIsConnectionClosed \/ ApplyChunkSize

SpecPure == InitPure /\ [][NextPure]_vars

(***************************************************************************)
(* Sessions sharing the buffer pools                                       *)
(*                                                                         *)
(* Each session runs the reading side of handleClientToBackend on its own  *)
(* input: readCommand with a buffer of cmdBufPool, and after a forwarded   *)
(* streaming command the chunk loop of handleInstream with a buffer of     *)
(* chunkBufPool.  sess[s] is                                               *)
(*   pc        "idle" (before readCommand), "cmd" (in its loop), "relay"   *)
(*             (before a length prefix), "chunk" (chunk read, not yet      *)
(*             written), "done"                                            *)
(*   in, full  the input left, the whole input                             *)
(*   cmdBuf, chunkBuf   the pooled buffer held, 0 for none                 *)
(*   cmdLen    len(cmdBytes)                                               *)
(*   size      size of the chunk held                                      *)
(*   seen      what readCommand returned (name and delimiter), the length  *)
(*             prefixes and the chunk bytes handed to p.backendBuf.Write   *)
(***************************************************************************)
MaxSessions == 2

PoolInputs ==
  { \* zINSTREAM, a chunk "aa", the terminator
    Cat(Cat(Cat(sz, sINSTREAM), NUL), Cat(Chunk(2, Ord("a")), Run(0, 4))),
    \* PING, nINSTREAM, a chunk "c", a chunk cut short
    Cat(Cat(Cat(sPING, LF), Cat(Cat(sn, sINSTREAM), LF)),
        Cat(Chunk(1, Ord("c")), Take(Chunk(2, Ord("d")), 5))) }

InitPool ==
  /\ SessionInit /\ PureIdle
  /\ cmdBufPool = [free |-> {}, mem |-> [i \in BufIds |-> newCmdBuf]]
  /\ chunkBufPool = [free |-> {}, mem |-> [i \in BufIds |-> newChunkBuf]]
  /\ sess \in [1..MaxSessions ->
                {[pc |-> "idle", in |-> i, full |-> i, cmdBuf |-> 0, chunkBuf |-> 0,
                  cmdLen |-> 0, size |-> 0, seen |-> <<>>] : i \in PoolInputs}]

sessionVars == <<envVars, connVars, c2bVars, clientBuf, clientMem, b2c, pureVars,
                 logVars>>

\* the buffers a session holds
heldCmd == {sess[s].cmdBuf : s \in DOMAIN sess} \ {0}
heldChunk == {sess[s].chunkBuf : s \in DOMAIN sess} \ {0}

\* cmdBytes := (*bufPtr)[:0]
cmdBytesKeep(n) == n
cmdBytesReset(n) == 0

\* lines 219-220: cmdBufPool.Get() gives a buffer that was Put, or a new one
PoolGetCmd ==
  \E s \in DOMAIN sess :
      /\ sess[s].pc = "idle"
      /\ \E i \in BufIds :
           /\ i \notin heldCmd
           /\ LET buf == IF i \in cmdBufPool.free THEN cmdBufPool.mem[i] ELSE newCmdBuf
              IN  /\ cmdBufPool' = [free |-> cmdBufPool.free \ {i},
                                    mem |-> [cmdBufPool.mem EXCEPT ![i] = buf]]
                  /\ sess' = [sess EXCEPT ![s].pc = "cmd", ![s].cmdBuf = i,
                                          ![s].cmdLen = cmdBytesReset(buf.len)]
      /\ UNCHANGED <<sessionVars, chunkBufPool>>

\* lines 226-245: one ReadByte of readCommand's loop
PoolReadByte ==
  \E s \in DOMAIN sess :
      /\ sess[s].pc = "cmd"
      /\ LET i == sess[s].cmdBuf
             buf == cmdBufPool.mem[i]
             in == sess[s].in
             put == cmdBufPool.free \cup {i}
         IN  IF in = <<>>
             THEN \* the reader fails: the buffer goes back, the loop ends
                  /\ cmdBufPool' = [cmdBufPool EXCEPT !.free = put]
                  /\ sess' = [sess EXCEPT ![s].pc = "done", ![s].cmdBuf = 0]
             ELSE IF IsDelim(ByteAt(in, 1))
             THEN LET cmd == Take(buf.arr, sess[s].cmdLen)
                  IN  /\ cmdBufPool' = [cmdBufPool EXCEPT !.free = put]
                      /\ sess' = [sess EXCEPT
                            ![s].pc = IF isCommandAllowed(cmd) /\ isInstreamCommand(cmd)
                                      THEN "relay" ELSE "idle",
                            ![s].cmdBuf = 0,
                            ![s].in = Drop(in, 1),
                            ![s].seen = Cat(sess[s].seen, Cat(cmd, Take(in, 1)))]
             ELSE \* cmdBytes = append(cmdBytes, b); *bufPtr = cmdBytes
                  /\ cmdBufPool' = [cmdBufPool EXCEPT
                        !.mem[i] = [arr |-> Overwrite(buf.arr, sess[s].cmdLen, Take(in, 1)),
                                    len |-> sess[s].cmdLen + 1]]
                  /\ sess' = [sess EXCEPT ![s].cmdLen = sess[s].cmdLen + 1,
                                          ![s].in = Drop(in, 1)]
      /\ UNCHANGED <<sessionVars, chunkBufPool>>

\* chunk[:size] as handed to p.backendBuf.Write
chunkSlice(mem, n) == Take(mem, n)

heldAfterErrorLeak(i) == i
\* lines 337 and 343: chunkBufPool.Put(chunkPtr) before the error is returned;
\* the buffer the session holds afterwards (0: none)
heldAfterError(i) == 0

\* lines 308-339: the length prefix is read; for a chunk of the pooled size
\* a buffer is taken from chunkBufPool and filled by io.ReadFull
PoolRelaySize ==
  \E s \in DOMAIN sess :
      /\ sess[s].pc = "relay"
      /\ LET in == sess[s].in
             n == chunkSize(Take(in, 4))
             data == Take(Drop(in, 4), n)
         IN  IF Size(in) < 4
             THEN /\ sess' = [sess EXCEPT ![s].pc = "done", ![s].in = <<>>]
                  /\ UNCHANGED chunkBufPool
             ELSE IF n = 0
             THEN /\ sess' = [sess EXCEPT ![s].pc = "idle", ![s].in = Drop(in, 4),
                                          ![s].seen = Cat(sess[s].seen, Take(in, 4))]
                  /\ UNCHANGED chunkBufPool
             ELSE /\ n <= chunkBufSize
                  /\ \E i \in BufIds :
                       /\ i \notin heldChunk
                       /\ LET buf == IF i \in chunkBufPool.free THEN chunkBufPool.mem[i]
                                     ELSE newChunkBuf
                              full == Size(data) = n
                              held == IF full THEN i ELSE heldAfterError(i)
                          IN  /\ chunkBufPool' =
                                    [free |-> IF held = i THEN chunkBufPool.free \ {i}
                                              ELSE chunkBufPool.free \cup {i},
                                     mem |-> [chunkBufPool.mem EXCEPT
                                                ![i] = Overwrite(buf, 0, data)]]
                              /\ sess' = [sess EXCEPT
                                    ![s].pc = IF full THEN "chunk" ELSE "done",
                                    ![s].chunkBuf = held,
                                    ![s].size = IF full THEN n ELSE 0,
                                    ![s].in = Drop(in, 4 + n),
                                    ![s].seen = Cat(sess[s].seen, Take(in, 4))]
      /\ UNCHANGED <<sessionVars, cmdBufPool>>

\* lines 342-348: the chunk is written to p.backendBuf and the buffer is
\* returned to the pool; the Write fails when the writer holds an error of
\* the backend connection
PoolChunkWrite ==
  \E s \in DOMAIN sess :
      /\ sess[s].pc = "chunk"
      /\ LET i == sess[s].chunkBuf
         IN  \E ok \in BOOLEAN :
               LET held == IF ok THEN 0 ELSE heldAfterError(i)
               IN  /\ chunkBufPool' =
                         [chunkBufPool EXCEPT
                            !.free = IF held = i THEN chunkBufPool.free
                                     ELSE chunkBufPool.free \cup {i}]
                   /\ sess' = [sess EXCEPT
                         ![s].pc = IF ok THEN "relay" ELSE "done",
                         ![s].chunkBuf = held, ![s].size = 0,
                         ![s].seen = IF ok
                                     THEN Cat(sess[s].seen,
                                              chunkSlice(chunkBufPool.mem[i], sess[s].size))
                                     ELSE sess[s].seen]
      /\ UNCHANGED <<sessionVars, cmdBufPool>>

\* a sync.Pool may drop a free buffer at any time (garbage collection); its
\* memory is gone with it
PoolDrop ==
  /\ \/ \E i \in cmdBufPool.free :
          /\ cmdBufPool' = [free |-> cmdBufPool.free \ {i},
                            mem |-> [cmdBufPool.mem EXCEPT ![i] = newCmdBuf]]
          /\ UNCHANGED chunkBufPool
     \/ \E i \in chunkBufPool.free :
          /\ chunkBufPool' = [free |-> chunkBufPool.free \ {i},
                              mem |-> [chunkBufPool.mem EXCEPT ![i] = newChunkBuf]]
          /\ UNCHANGED cmdBufPool
  /\ UNCHANGED <<sessionVars, sess>>

NextPool ==
  PoolGetCmd \/ PoolReadByte \/ PoolRelaySize \/ PoolChunkWrite \/ PoolDrop

SpecPool == InitPool /\ [][NextPool]_vars

(***************************************************************************)
(* Properties                                                              *)
(***************************************************************************)
\* the twelve spellings: each allow-listed name, bare and with 'z' or 'n'
TwelveCommands ==
  {Cat(f, w) : f \in {<<>>, sz, sn}, w \in {sPING, sVERSION, sVERSIONCOMMANDS, sINSTREAM}}

blank == {9, 10, 11, 12, 13, 32}

\* t (not empty, no blank in it) is the first blank-separated token of s
FirstTokenIs(s, t) ==
  \E i \in 0..Size(s) :
     /\ \A j \in 1..i : ByteAt(s, j) \in blank
     /\ i + Size(t) <= Size(s)
     /\ Take(Drop(s, i), Size(t)) = t
     /\ (i + Size(t) = Size(s) \/ ByteAt(s, i + Size(t) + 1) \in blank)

AllowedName(cmd) == \E t \in TwelveCommands : FirstTokenIs(cmd, t)

\* C2 as stated: isCommandAllowed is true for exactly the twelve strings PING,
\* VERSION, VERSIONCOMMANDS, INSTREAM and their 'z'- and 'n'-prefixed forms,
\* and false for every other string.
C2_ExactlyTwelveStrings ==
  pout.fn = "isCommandAllowed" => (pout.ok <=> pin \in TwelveCommands)

\* C2 amended: isCommandAllowed is true for exactly the strings whose first
\* whitespace-separated token is one of the twelve spellings (so it is also
\* true with trailing arguments or surrounding whitespace), false otherwise.
C2_FirstTokenOfTwelve ==
  pout.fn = "isCommandAllowed" => (pout.ok <=> AllowedName(pin))

\* an allowed string that is none of the twelve: "zPING /etc"
C2_Witness ==
  /\ pout.fn = "isCommandAllowed" /\ pout.ok
  /\ pin = Cat(Cat(sz, sPING), sArg)

\* C3: isInstreamCommand is true only for "zINSTREAM" and "nINSTREAM", false
\* for every other string, also one that merely starts with 'z' or 'n' and
\* ends with INSTREAM.
C3_OnlyTwoSpellings ==
  pout.fn = "isInstreamCommand" =>
    (pout.ok <=> pin \in {Cat(sz, sINSTREAM), Cat(sn, sINSTREAM)})

\* position of the first NUL or LF byte of s, 0 if there is none
FirstDelimAt(s) ==
  IF \E i \in 1..Size(s) : ByteAt(s, i) \in {0, 10}
  THEN CHOOSE i \in 1..Size(s) :
         /\ ByteAt(s, i) \in {0, 10}
         /\ \A j \in 1..(i - 1) : ByteAt(s, j) \notin {0, 10}
  ELSE 0

\* C8: readCommand returns the bytes before the first NUL or LF as the name
\* and that byte as the delimiter and consumes nothing beyond it; an input
\* that ends before any NUL or LF gives an error and no command, also when
\* some bytes were read.
C8_ReadCommand ==
  pout.fn = "readCommand" =>
    LET i == FirstDelimAt(pin)
    IN  IF i = 0
        THEN pout.r.err /\ pout.r.cmd = <<>>
        ELSE /\ ~pout.r.err
             /\ pout.r.cmd = Take(pin, i - 1)
             /\ pout.r.delim = ByteAt(pin, i)
             /\ pout.r.rest = Drop(pin, i)

\* "PIN": bytes were read, no delimiter came, the call failed
C8_Witness ==
  /\ pout.fn = "readCommand" /\ pin = Take(sPING, 3)
  /\ pout.r.err /\ pout.r.cmd = <<>>

\* the bytes the units of h put on the backend: an allowed command and its
\* delimiter, the bytes of a chunk stream; nothing for a rejected command
RECURSIVE Expected(_)
Expected(h) ==
  IF h = <<>> THEN <<>>
  ELSE LET e == h[Len(h)]
           front == Expected(SubSeq(h, 1, Len(h) - 1))
       IN  IF e.t = "fwd" THEN Cat(front, Cat(e.cmd, Run(e.delim, 1)))
           ELSE IF e.t = "relay" THEN Cat(front, e.b)
           ELSE front

\* the bytes of the client the units of h account for
RECURSIVE Consumed(_)
Consumed(h) ==
  IF h = <<>> THEN <<>>
  ELSE LET e == h[Len(h)]
           front == Consumed(SubSeq(h, 1, Len(h) - 1))
       IN  IF e.t \in {"fwd", "rej"} THEN Cat(front, Cat(e.cmd, Run(e.delim, 1)))
           ELSE Cat(front, e.b)

IsPrefix(a, b) == Size(a) <= Size(b) /\ Take(b, Size(a)) = a

\* C1: whatever the client sends, the bytes written to the backend are only
\* allowed commands with their delimiter and the chunk streams that follow
\* stream-classified commands; a command that is not allowed puts no byte on
\* the backend.
C1_OnlyAllowedReachBackend ==
  /\ clientSent = Cat(Consumed(hist), clientIn)
  /\ IsPrefix(Cat(toBackend, backendBuf.data), Expected(hist))
  /\ \A i \in DOMAIN hist :
       /\ hist[i].t = "fwd" => AllowedName(hist[i].cmd)
       /\ hist[i].t = "relay" =>
            i > 1 /\ hist[i - 1].t = "fwd" /\ isInstreamCommand(hist[i - 1].cmd)

\* RELOAD was sent: the backend got nothing, the client got the rejection
C1_Witness ==
  /\ hist = <<[t |-> "rej", cmd |-> sRELOAD, delim |-> newlineDelimiter]>>
  /\ c2b = "read" /\ clientIn = <<>>
  /\ toBackend = <<>> /\ backendBuf.data = <<>>
  /\ toClient = rejectResponse

\* C4: a rejected command does not end the client-to-backend direction and
\* closes no connection: once the rejection text is written and flushed the
\* loop reads the next command, and an allowed one is forwarded.  The
\* direction ends after a rejection only when the write or the flush of the
\* text failed.
C4_RejectionNotFatal ==
  /\ clientClosed => b2c = "done"
  /\ closedByC2B => hist # <<>> /\ hist[Len(hist)].t = "err"
  /\ \A i \in DOMAIN hist : hist[i].t = "rej" =>
       /\ i = Len(hist) =>
            \/ c2b \in {"rejFlush", "read"}
            \/ c2b = "done" /\ clientBuf.err
       /\ (i < Len(hist) /\ hist[i + 1].t = "fwd" /\ ~backendBuf.err) =>
            IsPrefix(Expected(SubSeq(hist, 1, i + 1)), toBackend)

\* RELOAD then PING on one connection: PING reached the backend
C4_Witness ==
  /\ hist = <<[t |-> "rej", cmd |-> sRELOAD, delim |-> newlineDelimiter],
              [t |-> "fwd", cmd |-> sPING, delim |-> newlineDelimiter]>>
  /\ toBackend = Cat(sPING, LF)
  /\ toClient = rejectResponse
  /\ ~backendClosed /\ ~clientClosed

\* no step of the proxy is possible until the client or the backend acts
ProxyAtRest ==
  /\ c2b = "done" \/ (C2BWaiting /\ ~clientEnded)
  /\ b2c = "done" \/ B2CWaiting

\* C5: the client sent PING and LF, the backend got exactly these bytes and
\* replied PONG and LF; whatever the backend does next, also when it keeps
\* the connection open and sends nothing more, the reply reaches the client:
\* the proxy does not come to rest with the reply undelivered.
C5_ReplyDelivered ==
  ( /\ hist = <<[t |-> "fwd", cmd |-> sPING, delim |-> newlineDelimiter]>>
    /\ toBackend = Cat(sPING, LF)
    /\ backendSent = Cat(sPONG, LF)
    /\ clientSt = "open" /\ ~clientClosed
    /\ ProxyAtRest )
  => toClient = Cat(sPONG, LF)

\* s is a sequence of chunks (4-byte big-endian length, that many bytes)
\* ended by a zero length, with nothing after it
RECURSIVE IsChunkStream(_)
IsChunkStream(s) ==
  /\ Size(s) >= 4
  /\ LET n == ((ByteAt(s, 1) * 256 + ByteAt(s, 2)) * 256 + ByteAt(s, 3)) * 256
                + ByteAt(s, 4)
     IN  IF n = 0 THEN Size(s) = 4
         ELSE Size(s) >= 4 + n /\ IsChunkStream(Drop(s, 4 + n))

\* C6: a chunk stream (length prefix and payload, repeated, ended by a zero
\* length) is written to the backend byte for byte, in order, both for
\* chunks of at most 32768 bytes and for larger ones: when handleInstream
\* has returned nil, what it read is a whole chunk stream and stands on the
\* backend connection right after the command that started it.
C6_RelayVerbatim ==
  \A i \in DOMAIN hist :
    (hist[i].t = "relay" /\ (i < Len(hist) \/ relayRet = "nil")) =>
      /\ IsChunkStream(hist[i].b)
      /\ Take(Drop(toBackend, Size(Expected(SubSeq(hist, 1, i - 1)))),
              Size(hist[i].b)) = hist[i].b

\* a 32768-byte chunk, a 32769-byte chunk and the terminator were relayed
C6_Witness ==
  /\ Len(hist) >= 2 /\ hist[2].t = "relay" /\ relayRet = "nil"
  /\ hist[2].b = Cat(Cat(Chunk(chunkBufSize, Ord("R")),
                         Chunk(chunkBufSize + 1, Ord("B"))), Run(0, 4))
  /\ IsPrefix(Cat(Cat(Cat(sz, sINSTREAM), NUL), hist[2].b), toBackend)

\* C7: on a zero length prefix the relay forwards exactly these 4 bytes,
\* returns nil (the backend accepting them) and reads no further byte: the
\* byte after the terminator is the first byte of the next command.
C7_ZeroChunkEndsRelay ==
  [][ ( /\ c2b = "relay" /\ hist' # hist
        /\ Size(clientIn) >= 4 /\ Take(clientIn, 4) = Run(0, 4)
        /\ ~clientClosed /\ backendWritable /\ ~backendBuf.err )
      => /\ clientIn' = Drop(clientIn, 4)
         /\ toBackend' = Cat(Cat(toBackend, backendBuf.data), Run(0, 4))
         /\ backendBuf'.data = <<>>
         /\ relayRet' = "nil" /\ c2b' = "read" ]_vars

\* zINSTREAM, then the terminator alone with PING right behind it: PING was
\* read as a command
C7_Witness ==
  /\ hist = <<[t |-> "fwd", cmd |-> Cat(sz, sINSTREAM), delim |-> nullDelimiter],
              [t |-> "relay", b |-> Run(0, 4)],
              [t |-> "fwd", cmd |-> sPING, delim |-> newlineDelimiter]>>
  /\ toBackend = Cat(Cat(Cat(Cat(sz, sINSTREAM), NUL), Run(0, 4)), Cat(sPING, LF))

\* C9: when one direction of a session has ended, the other ends as well
\* without the peer closing or sending: the proxy never rests with one
\* direction ended and the other one blocked.
C9_NoHalfOpenSession ==
  ((c2b = "done") # (b2c = "done")) => ~ProxyAtRest

\* C10: on every exit of its loop the client-to-backend direction has closed
\* the backend connection.
C10_ExitClosesBackend ==
  c2b = "done" => closedByC2B

\* C11: within one session each output buffer is written and flushed by one
\* direction only: a step that changes p.clientBuf or hands bytes to the
\* client connection is never a step of handleClientToBackend, and a step
\* that changes p.backendBuf or hands bytes to the backend connection is
\* never a step of Start.
C11_BufferOwnership ==
  [][ /\ (clientBuf' # clientBuf \/ toClient' # toClient) => c2b' = c2b /\ hist' = hist
      /\ (backendBuf' # backendBuf \/ toBackend' # toBackend) => b2c' = b2c ]_vars

\* C12: whenever handleInstream has returned, with nil or with an error,
\* p.backendBuf has been flushed: while the backend connection accepts
\* writes, no byte the relay wrote is left in the buffer.
C12_RelayExitFlushed ==
  (relayRet \in {"nil", "err"} /\ backendWritable /\ ~backendBuf.err)
    => backendBuf.data = <<>>

\* number of rejected commands among the units of h
NumRejected(h) == Cardinality({i \in DOMAIN h : h[i].t = "rej"})

\* s is k copies of the rejection text, each whole, merged in some way with
\* a prefix of b whose bytes keep their order
RECURSIVE IsMerge(_, _, _)
IsMerge(s, k, b) ==
  IF s = <<>> THEN k = 0
  ELSE \/ /\ k > 0 /\ HasPrefix(s, rejectResponse)
          /\ IsMerge(Drop(s, Size(rejectResponse)), k - 1, b)
       \/ /\ b # <<>> /\ s[1][1] = b[1][1]
          /\ LET j == IF s[1][2] < b[1][2] THEN s[1][2] ELSE b[1][2]
             IN  IsMerge(Drop(s, j), k, Drop(b, j))

\* C13: for every command that is not allowed, exactly one copy of
\* "ERROR: Command not allowed" and LF is written to the client and flushed
\* before the next command is read, and it reaches the client whole and
\* unaltered under every interleaving with the backend's bytes: whenever the
\* loop is back at reading a command and the client connection accepts
\* writes, the client has received as many whole copies of the text as
\* commands were rejected, and besides them only bytes of the backend, in
\* the backend's order.
C13_RejectionTextWhole ==
  (c2b = "read" /\ clientWritable) => IsMerge(toClient, NumRejected(hist), backendSent)

\* C14: isConnectionClosed decides in this order: nil gives false; an error
\* that is a timeout gives false, also when it is a wrapped operational
\* network error or carries a closure signal; any other wrapped operational
\* network error gives true; end-of-stream, unexpected-end-of-stream,
\* broken-pipe and connection-reset give true; every other error gives false.
C14_ClosedOrder ==
  pout.fn = "isConnectionClosed" =>
    (pout.ok <=> /\ ~perr.nil
                 /\ perr.net # "timeout"
                 /\ (perr.op \/ perr.is \cap closureSignals # {}))

\* a timeout that is a *net.OpError wrapping ECONNRESET: not closed
C14_Witness ==
  /\ pout.fn = "isConnectionClosed" /\ ~pout.ok
  /\ perr = [nil |-> FALSE, net |-> "timeout", op |-> TRUE, is |-> {"ECONNRESET"}]

\* C15: with two sessions borrowing from and returning to the shared pools
\* concurrently, no pooled buffer is held by two sessions at once or is free
\* while held, and a session uses only the part of a buffer it has itself
\* overwritten: what readCommand returns and what the chunk loop writes to
\* the backend are the session's own input bytes, in order, never a byte a
\* previous holder left in the buffer.
C15_PoolsNoLeak ==
  /\ \A s, t \in DOMAIN sess :
       s # t => /\ sess[s].cmdBuf # 0 => sess[s].cmdBuf # sess[t].cmdBuf
                /\ sess[s].chunkBuf # 0 => sess[s].chunkBuf # sess[t].chunkBuf
  /\ heldCmd \cap cmdBufPool.free = {}
  /\ heldChunk \cap chunkBufPool.free = {}
  /\ \A s \in DOMAIN sess :
       /\ IsPrefix(sess[s].seen, sess[s].full)
       /\ sess[s].pc \in {"idle", "relay"} =>
            sess[s].full = Cat(sess[s].seen, sess[s].in)
       /\ sess[s].pc = "cmd" =>
            sess[s].full = Cat(Cat(sess[s].seen,
                                   Take(cmdBufPool.mem[sess[s].cmdBuf].arr, sess[s].cmdLen)),
                               sess[s].in)
       /\ sess[s].pc = "chunk" =>
            sess[s].full = Cat(Cat(sess[s].seen,
                                   Take(chunkBufPool.mem[sess[s].chunkBuf], sess[s].size)),
                               sess[s].in)

\* a session was given the buffers in which another had read "zINSTREAM" and
\* a chunk "aa": it read "PING" over the first, and PING is what readCommand
\* returned; it holds the second with its own byte "c" before the other's "a"
C15_Witness ==
  \E s \in DOMAIN sess :
    /\ HasPrefix(sess[s].seen, Cat(sPING, LF))
    /\ sess[s].pc = "chunk" /\ sess[s].size = 1
    /\ Take(chunkBufPool.mem[sess[s].chunkBuf], 2) = Cat(Run(Ord("c"), 1), Run(Ord("a"), 1))
    /\ \E j \in BufIds : Take(cmdBufPool.mem[j].arr, 9) = Cat(sPING, Drop(sINSTREAM, 3))

\* s has a byte that is not blank
HasToken(s) == \E i \in 1..Size(s) : ByteAt(s, i) \notin blank

\* the first blank-separated token of s (s has one)
FirstToken(s) ==
  LET a == CHOOSE i \in 1..Size(s) :
             ByteAt(s, i) \notin blank /\ \A j \in 1..(i - 1) : ByteAt(s, j) \in blank
      e == CHOOSE i \in a..Size(s) :
             /\ \A j \in a..i : ByteAt(s, j) \notin blank
             /\ i = Size(s) \/ ByteAt(s, i + 1) \in blank
  IN  Take(Drop(s, a - 1), e - a + 1)

\* C16: the allow decision depends only on the first whitespace-separated
\* token: for every command read that has a token, isCommandAllowed of the
\* command equals isCommandAllowed of its first token, whatever arguments
\* follow, and the command is forwarded exactly when that token is allowed;
\* a rejected command, arguments included, puts no byte on the backend.
C16_FirstTokenDecides ==
  /\ \A i \in DOMAIN hist : hist[i].t \in {"fwd", "rej"} =>
       LET c == hist[i].cmd
       IN  /\ HasToken(c) => (isCommandAllowed(c) <=> isCommandAllowed(FirstToken(c)))
           /\ hist[i].t = "fwd" <=> (HasToken(c) /\ isCommandAllowed(FirstToken(c)))
  /\ IsPrefix(Cat(toBackend, backendBuf.data), Expected(hist))

\* "SCAN /etc" was rejected and left nothing on the backend; "zPING INSTREAM"
\* was forwarded with its argument
C16_Witness ==
  /\ Len(hist) >= 2
  /\ hist[1] = [t |-> "rej", cmd |-> Cat(sSCAN, sArg), delim |-> newlineDelimiter]
  /\ hist[2] = [t |-> "fwd", cmd |-> Cat(Cat(sz, sPING), Cat(SP, sINSTREAM)),
                delim |-> newlineDelimiter]
  /\ toBackend = Cat(Cat(Cat(sz, sPING), Cat(SP, sINSTREAM)), LF)
  /\ toClient = rejectResponse

\* C17: the chunk relay is entered only right after forwarding an allowed
\* command whose name (its first token) is zINSTREAM or nINSTREAM; it is
\* never entered after a forwarded command whose name is PING, VERSION or
\* VERSIONCOMMANDS, with or without prefix, whatever arguments it carries.
C17_RelayOnlyAfterInstream ==
  \A i \in DOMAIN hist : hist[i].t = "relay" =>
    /\ i > 1 /\ hist[i - 1].t = "fwd" /\ HasToken(hist[i - 1].cmd)
    /\ FirstToken(hist[i - 1].cmd) \in {Cat(sz, sINSTREAM), Cat(sn, sINSTREAM)}

\* C18: each allowed command is written and flushed to the backend before
\* the next command is read: whenever the client-to-backend loop is about
\* to read a command p.backendBuf holds no byte, and a step that reads a
\* command hands to the backend connection that command and its delimiter
\* and nothing else, so no two commands go out in one flush.
C18_CommandByCommand ==
  [][ /\ c2b = "read" => backendBuf.data = <<>>
      /\ c2b' = "read" => backendBuf'.data = <<>>
      /\ (c2b = "read" /\ toBackend' # toBackend) =>
           /\ Len(hist') > Len(hist)
           /\ hist'[Len(hist) + 1].t = "fwd"
           /\ toBackend' = Cat(toBackend, Cat(hist'[Len(hist) + 1].cmd,
                                              Run(hist'[Len(hist) + 1].delim, 1))) ]_vars

\* PING and PING again: both on the backend, the loop reads the next command
C18_Witness ==
  /\ hist = <<[t |-> "fwd", cmd |-> sPING, delim |-> newlineDelimiter],
              [t |-> "fwd", cmd |-> sPING, delim |-> newlineDelimiter]>>
  /\ toBackend = Cat(Cat(sPING, LF), Cat(sPING, LF))
  /\ c2b = "read" /\ backendBuf = NewWriter

\* the bytes Start has read from the backend
backendRead == Take(backendSent, Size(backendSent) - Size(backendOut))

\* b occurs in s as a subsequence: every byte of b, in order
RECURSIVE IsSubseq(_, _)
IsSubseq(b, s) ==
  IF b = <<>> THEN TRUE
  ELSE IF s = <<>> THEN FALSE
  ELSE IF s[1][1] = b[1][1]
       THEN LET j == IF s[1][2] < b[1][2] THEN s[1][2] ELSE b[1][2]
            IN  IsSubseq(Drop(b, j), Drop(s, j))
       ELSE IsSubseq(b, Drop(s, s[1][2]))

\* C19: Start flushes p.clientBuf on every way out of its loop, so when it
\* has returned and the client connection accepts writes, every byte it read
\* from the backend has been handed to the client connection, in order.
C19_FinalFlushDelivers ==
  (b2c = "returned" /\ clientWritable) => IsSubseq(backendRead, toClient)

\* C20: an I/O error on either connection ends the backend-to-client loop:
\* after a failed backend read, a failed write to p.clientBuf or a failed
\* periodic flush, Start does not go back to p.backend.Read.
C20_IoErrorEndsLoop ==
  [][ /\ (b2c = "read" /\ (backendClosed \/ backendOut = <<>>) /\ b2c' # b2c)
          => b2c' = "final"
      /\ (b2c = "check" /\ Size(clientBuf.data) > flushWatermark
            /\ BufFlush(clientBuf, toClient, clientWritable).e /\ b2c' # b2c)
          => b2c' # "read" ]_vars

\* C21: when Start is about to read from the backend and no flush has failed,
\* p.clientBuf holds at most 32 KiB (32768 bytes) that Start wrote: the
\* buffered bytes, less a rejection text the other direction has written and
\* not yet flushed, are at most 32768; and the buffer never holds more than
\* its capacity of 64 KiB.
C21_WatermarkBound ==
  /\ Size(clientBuf.data) <= 65536
  /\ (b2c = "read" /\ ~clientBuf.err) =>
       Size(clientBuf.data)
         <= 32768 + (IF c2b = "rejFlush" THEN Size(rejectResponse) ELSE 0)

\* Start is back at the read after the periodic flush handed a reply of 32769
\* bytes to the client
C21_Witness ==
  /\ b2c = "read" /\ ~clientBuf.err
  /\ Size(backendRead) = 32769 /\ toClient = backendRead /\ clientBuf.data = <<>>

\* the chunk relay is reading and the client stream has ended before the 4
\* size bytes, or before the bytes of the declared chunk, are there
RelayShortRead ==
  /\ clientEnded
  /\ \/ c2b = "relay" /\ Size(clientIn) < 4
     \/ c2b = "relayData" /\ Size(clientIn) < size

\* C22: when the client stream ends within a length prefix or within a chunk,
\* handleInstream returns an error and handleClientToBackend ends: it reads
\* no further command, does not retry, and never takes the partial bytes for
\* a command (no unit is added to what it has read, nothing is rejected).
C22_ShortReadEndsDirection ==
  [][ /\ (RelayShortRead /\ c2b' # c2b) =>
           /\ relayRet' = "err" /\ c2b' = "done"
           /\ Len(hist') = Len(hist) /\ hist'[Len(hist')].t = "relay"
           /\ clientBuf' = clientBuf /\ toClient' = toClient
      /\ (c2b = "done" /\ relayRet = "err") =>
           /\ c2b' = "done" /\ hist' = hist /\ clientIn' = clientIn
           /\ backendBuf' = backendBuf /\ toBackend' = toBackend ]_vars

\* the relay has failed on a short read alone: the client closed its end and
\* the backend connection took every write
C22_Witness ==
  /\ c2b = "done" /\ relayRet = "err"
  /\ clientSt = "eof" /\ ~clientClosed
  /\ backendWritable /\ ~backendBuf.err

\* the bytes of the client a step has consumed
ConsumedInStep == Take(clientIn, Size(clientIn) - Size(clientIn'))

\* C23: while handleInstream runs, no byte of the client is read as a
\* command.  A step that forwards a stream-classified command enters the
\* relay; every step that reads in the relay adds what it read to the relay's
\* bytes, whatever they contain, adds no command and writes nothing to the
\* client, and hands these bytes to the backend writer when the read was
\* complete and the backend takes writes; and the relay gives the stream back
\* to the command reader only on a zero length prefix, at the byte after it.
C23_NoCommandInsideRelay ==
  [][ /\ ( /\ c2b = "read" /\ Len(hist') > Len(hist)
           /\ hist'[Len(hist) + 1].t = "fwd"
           /\ isInstreamCommand(hist'[Len(hist) + 1].cmd)
           /\ c2b' # "done" )
         => /\ c2b' = "relay" /\ Len(hist') = Len(hist) + 2
            /\ hist'[Len(hist')] = [t |-> "relay", b |-> <<>>]
      /\ (c2b \in {"relay", "relayData"} /\ hist' # hist)
         => /\ Len(hist') = Len(hist)
            /\ hist' = SetLast(hist, [t |-> "relay",
                                      b |-> Cat(hist[Len(hist)].b, ConsumedInStep)])
            /\ clientBuf' = clientBuf /\ toClient' = toClient
            /\ (backendWritable /\ ~backendBuf.err /\ ~clientClosed /\ ~RelayShortRead)
                 => Cat(toBackend', backendBuf'.data)
                      = Cat(Cat(toBackend, backendBuf.data), ConsumedInStep)
      /\ (c2b \in {"relay", "relayData"} /\ c2b' = "read")
         => /\ c2b = "relay" /\ Take(clientIn, 4) = Run(0, 4)
            /\ clientIn' = Drop(clientIn, 4) ]_vars

\* a chunk whose 8 bytes are RELOAD, LF and NUL went through the relay: the
\* backend has it, nothing was rejected, and PING behind the terminator was
\* read as the next command
C23_Witness ==
  /\ Len(hist) = 3 /\ hist[2].t = "relay" /\ relayRet = "nil"
  /\ hist[2].b = Cat(Cat(Cat(Run(0, 3), Run(8, 1)), Cat(Cat(sRELOAD, LF), NUL)),
                     Run(0, 4))
  /\ hist[3] = [t |-> "fwd", cmd |-> sPING, delim |-> newlineDelimiter]
  /\ toClient = <<>> /\ clientBuf.data = <<>>
  /\ toBackend = Cat(Cat(Cat(Cat(sz, sINSTREAM), NUL), hist[2].b), Cat(sPING, LF))

\* a command named INSTREAM without prefix has been forwarded
BareForwarded ==
  \E i \in DOMAIN hist : hist[i].t = "fwd" /\ FirstTokenIs(hist[i].cmd, sINSTREAM)

\* C24: a command whose name is INSTREAM without prefix is forwarded as a
\* plain command and handleInstream is not called: the step that reads it
\* puts the command and its delimiter on the backend connection and stays in
\* the command loop; and the bytes behind it (length prefix, payload) are
\* read as delimited commands, forwarded when their name is one of the twelve
\* allowed names and rejected otherwise.
C24_BareInstreamIsPlain ==
  [][ (c2b = "read" /\ Len(hist') > Len(hist)) =>
        LET u == hist'[Len(hist) + 1]
        IN  /\ (u.t = "fwd" /\ FirstTokenIs(u.cmd, sINSTREAM)) =>
                 /\ Len(hist') = Len(hist) + 1 /\ relayRet' = relayRet
                 /\ c2b' \in {"read", "done"}
                 /\ c2b' = "read" =>
                      /\ backendBuf'.data = <<>>
                      /\ toBackend' = Cat(Cat(toBackend, backendBuf.data),
                                          Cat(u.cmd, Run(u.delim, 1)))
            /\ BareForwarded =>
                 /\ u.t \in {"fwd", "rej", "err"}
                 /\ u.t = "fwd" => AllowedName(u.cmd)
                 /\ u.t = "rej" => ~AllowedName(u.cmd) ]_vars

\* INSTREAM, LF, then the chunk 00 00 00 05 PING LF: INSTREAM alone reached
\* the backend, the three NUL-ended empty commands and the command made of
\* the byte 05 and PING were rejected
C24_Witness ==
  /\ Len(hist) = 5 /\ c2b = "read"
  /\ hist[1] = [t |-> "fwd", cmd |-> sINSTREAM, delim |-> newlineDelimiter]
  /\ \A j \in 2..4 : hist[j] = [t |-> "rej", cmd |-> <<>>, delim |-> nullDelimiter]
  /\ hist[5] = [t |-> "rej", cmd |-> Cat(Run(5, 1), sPING), delim |-> newlineDelimiter]
  /\ toBackend = Cat(sINSTREAM, LF) /\ backendBuf.data = <<>>

\* C25: an allowed command goes to the backend as the bytes the client sent
\* for it: the name as the reader returned it, prefix and arguments
\* included, and the delimiter the client used, whether or not it is the one
\* the prefix stands for.
C25_ForwardedAsRead ==
  [][ (c2b = "read" /\ Len(hist') > Len(hist) /\ hist'[Len(hist) + 1].t = "fwd") =>
        LET u == hist'[Len(hist) + 1]
        IN  /\ ConsumedInStep = Cat(u.cmd, Run(u.delim, 1))
            /\ ~HasDelim(u.cmd) /\ IsDelim(u.delim)
            /\ c2b' # "done" =>
                 /\ backendBuf'.data = <<>>
                 /\ toBackend' = Cat(Cat(toBackend, backendBuf.data), ConsumedInStep) ]_vars

\* nVERSION ended by NUL and zINSTREAM ended by LF stand on the backend
\* connection as the client sent them
C25_Witness ==
  /\ Len(hist) >= 2
  /\ hist[1] = [t |-> "fwd", cmd |-> Cat(sn, sVERSION), delim |-> nullDelimiter]
  /\ hist[2] = [t |-> "fwd", cmd |-> Cat(sz, sINSTREAM), delim |-> newlineDelimiter]
  /\ toBackend = Cat(Cat(Cat(sn, sVERSION), NUL), Cat(Cat(sz, sINSTREAM), LF))

\* C26: a session holds at most one pooled buffer, and only inside the call
\* that borrowed it: a command buffer while readCommand reads, a chunk buffer
\* between Get and the Write of the chunk.  Between commands and chunks, and
\* when the direction has ended (also on a failed read or write), it holds
\* none, so every buffer is back in its pool before the next is borrowed; a
\* buffer a session holds is not free and no other session holds it.
C26_OneBufferReturned ==
  \A s \in DOMAIN sess :
    /\ ~(sess[s].cmdBuf # 0 /\ sess[s].chunkBuf # 0)
    /\ sess[s].cmdBuf # 0 <=> sess[s].pc = "cmd"
    /\ sess[s].chunkBuf # 0 <=> sess[s].pc = "chunk"
    /\ sess[s].pc \in {"idle", "relay", "done"} =>
         sess[s].cmdBuf = 0 /\ sess[s].chunkBuf = 0
    /\ sess[s].cmdBuf \notin cmdBufPool.free
    /\ sess[s].chunkBuf \notin chunkBufPool.free
    /\ \A r \in DOMAIN sess \ {s} :
         /\ sess[s].cmdBuf # 0 => sess[r].cmdBuf # sess[s].cmdBuf
         /\ sess[s].chunkBuf # 0 => sess[r].chunkBuf # sess[s].chunkBuf

\* a session has ended on the chunk that was cut short, after it borrowed
\* command buffers and chunk buffers: it holds none and both pools have a
\* free buffer
C26_Witness ==
  \E s \in DOMAIN sess :
    /\ sess[s].pc = "done" /\ sess[s].in = <<>>
    /\ sess[s].full = Cat(Cat(Cat(sPING, LF), Cat(Cat(sn, sINSTREAM), LF)),
                          Cat(Chunk(1, Ord("c")), Take(Chunk(2, Ord("d")), 5)))
    /\ sess[s].seen = Cat(Cat(Cat(sPING, LF), Cat(Cat(sn, sINSTREAM), LF)),
                          Cat(Chunk(1, Ord("c")), Take(Chunk(2, Ord("d")), 4)))
    /\ sess[s].cmdBuf = 0 /\ sess[s].chunkBuf = 0
    /\ cmdBufPool.free # {} /\ chunkBufPool.free # {}

\* the bytes of s that are in the set B, in their order
RECURSIVE OnlyBytes(_, _)
OnlyBytes(s, B) ==
  IF s = <<>> THEN <<>>
  ELSE IF s[1][1] \in B THEN Cat(<<s[1]>>, OnlyBytes(Tail(s), B))
  ELSE OnlyBytes(Tail(s), B)

\* bytes that only the backend's replies contain: they are neither in the
\* rejection text nor in a new buffer
backendOnly == {Ord("P"), Ord("G"), Ord("V"), Ord("W")}

\* C27: the bytes of the backend that the client connection has received are
\* a prefix of what Start has read from the backend: in the same order, none
\* twice, none missing in the middle, none changed.  Stated for the bytes
\* that can have no other origin than the backend.
C27_BackendBytesInOrder ==
  IsPrefix(OnlyBytes(toClient, backendOnly), OnlyBytes(backendRead, backendOnly))

\* C28: the four size bytes are decoded as their unsigned 32-bit big-endian
\* value (as halves: the first two bytes and the last two, none negative); a
\* size of 0 ends the relay, a size up to 32768 goes through the pooled
\* buffer, which is sliced within its length, and a larger one is streamed.
C28_LengthDecoding ==
  pout.fn = "chunkSize" =>
    LET b == Take(pin, 4)
        hi == ByteAt(b, 1) * 256 + ByteAt(b, 2)
        lo == ByteAt(b, 3) * 256 + ByteAt(b, 4)
    IN  /\ pout.size = [h |-> hi, l |-> lo]
        /\ pout.path = IF hi = 0 /\ lo = 0 THEN "end"
                       ELSE IF hi = 0 /\ lo <= 32768 THEN "pooled"
                       ELSE "stream"

\* C29: the value isConnectionClosed returns never changes what a session
\* does.  In every step in which a direction ends its loop and logs, the
\* step is the one the code takes under either value of the classifier
\* (closed): the same position of both directions, the same connections
\* closed, the same bytes on both connections and in both writers; only
\* the line logged follows the value.
C29_ClassifierOnlyLogs ==
  [][ /\ (logged'.c2b # logged.c2b) =>
           \A closed \in BOOLEAN :
             LET x == readErrorExit(readCommandError, closed)
             IN  /\ c2b' = x.c2b /\ b2c' = b2c
                 /\ backendClosed' = (backendClosed \/ x.close)
                 /\ closedByC2B' = (closedByC2B \/ x.close)
                 /\ clientClosed' = clientClosed
                 /\ toBackend' = toBackend /\ toClient' = toClient
                 /\ backendBuf' = backendBuf /\ clientBuf' = clientBuf
                 /\ clientIn' = <<>> /\ backendOut' = backendOut
                 /\ logged'.c2b \in {readErrorExit(readCommandError, TRUE).log,
                                     readErrorExit(readCommandError, FALSE).log}
      /\ (logged'.b2c # logged.b2c) =>
           \A closed \in BOOLEAN :
             LET x == startExit(startErr, closed)
                 f == BufFlush(clientBuf, toClient, clientWritable)
             IN  /\ b2c' = x.b2c
                 /\ backendClosed' = backendClosed /\ closedByC2B' = closedByC2B
                 /\ clientClosed' = clientClosed
                 /\ toBackend' = toBackend /\ backendBuf' = backendBuf
                 /\ backendOut' = backendOut
                 /\ c2bOp.k = "none" =>
                      /\ c2b' = c2b /\ clientIn' = clientIn
                      /\ toClient' = f.out /\ clientBuf' = f.w
                 /\ logged'.b2c \in {startExit(startErr, TRUE).log,
                                     startExit(startErr, FALSE).log}
    ]_vars

\* Start has ended with io.ErrShortWrite, for which the classifier returns
\* false, and has logged and returned as it does when it returns true
C29_Witness ==
  /\ startErr = errShortWrite /\ ~isConnectionClosed(startErr)
  /\ logged.b2c = "Debug: Error copying from backend to client"
  /\ b2c = "returned" /\ c2b = "done"

====
